---------------------------- MODULE Spec2Model ----------------------------
(***************************************************************************)
(* A model of atylar, a file store that keeps the earlier versions of each *)
(* file under <root>/.history/<path>@<generation>.                         *)
(*                                                                         *)
(* A Go string is a sequence of one-character strings, so that cleaning,   *)
(* splitting, formatting and parsing are computed and not assumed.  A      *)
(* location on disk is the sequence of its path elements below the store   *)
(* root; the disk is a function from the existing locations to their nodes *)
(* (a directory, or a regular file with its bytes).                        *)
(***************************************************************************)
EXTENDS Integers, Sequences, FiniteSets, TLC

VARIABLES fs, gen, issued, last

vars == <<fs, gen, issued, last>>

---------------------------------------------------------------------------
(* Bounds of the model.                                                    *)

\* Generations issued (by captures and by GetGeneration(true)) in one run.
MaxIssue == 2

---------------------------------------------------------------------------
(* Strings.                                                                *)

Slash == "/"
At == "@"
Dot == "."

\* The characters of the model in byte order (strings compare bytewise).
Alphabet == <<"!", ".", "/", "0", "1", "2", "3", "4", "5", "6", "7", "8", "9", "@", "H", "W", "_", "d", "e", "f", "h", "i", "l", "o", "r", "s", "t", "x", "y">>

Digits == <<"0", "1", "2", "3", "4", "5", "6", "7", "8", "9">>

Code(c) == CHOOSE i \in 1..Len(Alphabet) : Alphabet[i] = c

IsDigit(c) == \E i \in 1..10 : Digits[i] = c

DigitValue(c) == (CHOOSE i \in 1..10 : Digits[i] = c) - 1

Last(s) == s[Len(s)]

Front(s) == SubSeq(s, 1, Len(s) - 1)

HasPrefix(s, p) == Len(p) <= Len(s) /\ SubSeq(s, 1, Len(p)) = p

HasSuffix(s, p) == Len(p) <= Len(s) /\ SubSeq(s, Len(s) - Len(p) + 1, Len(s)) = p

Contains(s, c) == \E i \in 1..Len(s) : s[i] = c

\* s < t in byte order.
StrLess(s, t) ==
    \E k \in 0..Len(s) :
        /\ k <= Len(t)
        /\ \A i \in 1..k : s[i] = t[i]
        /\ \/ k = Len(s) /\ k < Len(t)
           \/ k < Len(s) /\ k < Len(t) /\ Code(s[k + 1]) < Code(t[k + 1])

\* strings.Split(s, sep) for a one-character separator.
RECURSIVE Split(_, _)
Split(s, sep) ==
    IF ~Contains(s, sep) THEN <<s>>
    ELSE LET i == CHOOSE j \in 1..Len(s) : s[j] = sep /\ \A k \in 1..(j - 1) : s[k] # sep
         IN  <<SubSeq(s, 1, i - 1)>> \o Split(SubSeq(s, i + 1, Len(s)), sep)

\* The elements joined by "/".
RECURSIVE JoinSlash(_)
JoinSlash(elems) ==
    IF elems = <<>> THEN <<>>
    ELSE IF Len(elems) = 1 THEN elems[1]
    ELSE elems[1] \o <<Slash>> \o JoinSlash(Tail(elems))

\* strings.TrimRight(s, "/").
RECURSIVE TrimRightSlash(_)
TrimRightSlash(s) ==
    IF s # <<>> /\ Last(s) = Slash THEN TrimRightSlash(Front(s)) ELSE s

\* strings.Replace(s, "@", "_", -1).
ReplaceAt(s) == [i \in 1..Len(s) |-> IF s[i] = At THEN "_" ELSE s[i]]

\* strings.TrimPrefix(s, ".").
TrimPrefixDot(s) == IF s # <<>> /\ s[1] = Dot THEN Tail(s) ELSE s

---------------------------------------------------------------------------
(* path/filepath (Unix).                                                   *)

DotDot == <<".", ".">>

\* One step of filepath.Clean over the elements kept so far.
CleanStep(out, elem, rooted) ==
    IF elem = <<>> \/ elem = <<Dot>> THEN out
    ELSE IF elem = DotDot
         THEN IF out # <<>> /\ Last(out) # DotDot THEN Front(out)
              ELSE IF rooted THEN out
              ELSE Append(out, DotDot)
    ELSE Append(out, elem)

RECURSIVE CleanElems(_, _, _)
CleanElems(out, elems, rooted) ==
    IF elems = <<>> THEN out
    ELSE CleanElems(CleanStep(out, elems[1], rooted), Tail(elems), rooted)

\* The cleaned elements put together again.
CleanJoined(rooted, elems) ==
    IF rooted THEN <<Slash>> \o JoinSlash(elems)
    ELSE IF elems = <<>> THEN <<Dot>>
    ELSE JoinSlash(elems)

\* filepath.Clean.
Clean(path) ==
    IF path = <<>> THEN <<Dot>>
    ELSE CleanJoined(path[1] = Slash, CleanElems(<<>>, Split(path, Slash), path[1] = Slash))

\* filepath.Base.
Base(path) ==
    IF path = <<>> THEN <<Dot>>
    ELSE LET p == TrimRightSlash(path)
         IN  IF p = <<>> THEN <<Slash>> ELSE Last(Split(p, Slash))

\* The non-empty elements of a path string.
Elements(path) == SelectSeq(Split(path, Slash), LAMBDA e : e # <<>>)

---------------------------------------------------------------------------
(* Generations: uint64 in the code, scaled here to eight bits.             *)

MaxUint == 255

RECURSIVE FormatUint(_)
\* strconv.FormatUint(n, 10).
FormatUint(n) ==
    IF n < 10 THEN <<Digits[n + 1]>>
    ELSE FormatUint(n \div 10) \o <<Digits[(n % 10) + 1]>>

RECURSIVE ParseDigits(_, _)
ParseDigits(acc, s) ==
    IF s = <<>> THEN acc
    ELSE LET n == acc * 10 + DigitValue(s[1])
         IN  IF n > MaxUint THEN MaxUint + 1 ELSE ParseDigits(n, Tail(s))

\* strconv.ParseUint(s, 10, 64): the value and whether it failed.  A syntax
\* error gives 0, a value out of range gives the largest unsigned integer.
ParseUint(s) ==
    IF s = <<>> \/ \E i \in 1..Len(s) : ~IsDigit(s[i]) THEN [value |-> 0, err |-> TRUE]
    ELSE LET n == ParseDigits(0, s)
         IN  IF n > MaxUint THEN [value |-> MaxUint, err |-> TRUE]
             ELSE [value |-> n, err |-> FALSE]

\* The scan of getGenerationFromFileName from index i down (i is 1-based).
RECURSIVE ScanGeneration(_, _)
ScanGeneration(path, i) ==
    IF i < 1 THEN 0
    ELSE IF path[i] = Slash \/ path[i] = "\\" THEN 0
    ELSE IF path[i] = At THEN ParseUint(SubSeq(path, i + 1, Len(path))).value
    ELSE ScanGeneration(path, i - 1)

getGenerationFromFileName(path) ==
    IF path = <<>> THEN 0
    ELSE LET p == TrimRightSlash(path) IN ScanGeneration(p, Len(p) - 1)

---------------------------------------------------------------------------
(* Legal paths and locations.                                              *)

HistoryName == <<".", "h", "i", "s", "t", "o", "r", "y">>

\* The loop of checkPath over the elements of the cleaned path.
IllegalElements(pathElements) ==
    \/ \E i \in 1..Len(pathElements) :
          Contains(pathElements[i], At) \/ HasPrefix(pathElements[i], <<Dot>>)
    \/ \A i \in 1..Len(pathElements) : pathElements[i] = <<>>

\* checkPath: TRUE when the path is refused with ErrIllegalPath.
checkPath(path) == IllegalElements(Split(Clean(path), Slash))

\* filepath.Join of two strings.
Join2(a, b) ==
    IF a = <<>> /\ b = <<>> THEN <<>>
    ELSE IF a = <<>> THEN Clean(b)
    ELSE IF b = <<>> THEN Clean(a)
    ELSE Clean(a \o <<Slash>> \o b)

RECURSIVE FixElems(_, _)
FixElems(fixed, elems) ==
    IF elems = <<>> THEN fixed
    ELSE FixElems(Join2(fixed, ReplaceAt(TrimPrefixDot(elems[1]))), Tail(elems))

fixPath(path) ==
    FixElems(IF HasPrefix(path, <<Slash>>) THEN <<Slash>> ELSE <<>>, Split(Clean(path), Slash))

\* Store.realPath, as the elements below the store root.
realPath(path, history) ==
    (IF history THEN <<HistoryName>> ELSE <<>>) \o Elements(Clean(<<Slash>> \o path))

\* realPath(path, true) + "@" + strconv.FormatUint(generation, 10): the text
\* is appended to the last element of the location.
WithGeneration(loc, generation) ==
    Front(loc) \o <<Last(loc) \o <<At>> \o FormatUint(generation)>>

historyPath(path, generation) == WithGeneration(realPath(path, TRUE), generation)

---------------------------------------------------------------------------
(* The disk: the collaborator behind package os.  A function from the      *)
(* existing locations to nodes; a failing call names its errno.            *)

DirNode == [dir |-> TRUE, data |-> <<>>]

FileNode(data) == [dir |-> FALSE, data |-> data]

Root == <<>>

\* filepath.Dir of a location below the root.
Dir(loc) == Front(loc)

IsUnder(loc, d) == Len(loc) >= Len(d) /\ SubSeq(loc, 1, Len(d)) = d

Children(f, d) == {loc \in DOMAIN f : Len(loc) = Len(d) + 1 /\ Front(loc) = d}

Prefixes(loc) == {SubSeq(loc, 1, k) : k \in 0..Len(loc)}

\* The errno of resolving a location: "ok" when it exists.
Errno(f, loc) ==
    IF loc \in DOMAIN f THEN "ok"
    ELSE IF \E q \in Prefixes(loc) : q \in DOMAIN f /\ ~f[q].dir THEN "ENOTDIR"
    ELSE "ENOENT"

\* The size os.Stat reports for a directory (4096 on ext4).
DirSize == 4096

Size(f, loc) == IF f[loc].dir THEN DirSize ELSE Len(f[loc].data)

Without(f, locs) == [loc \in DOMAIN f \ locs |-> f[loc]]

\* os.MkdirAll.
MkdirAll(f, loc) ==
    IF \E q \in Prefixes(loc) : q \in DOMAIN f /\ ~f[q].dir
    THEN [fs |-> f, err |-> "ENOTDIR"]
    ELSE [fs |-> [q \in DOMAIN f \cup Prefixes(loc) |-> IF q \in DOMAIN f THEN f[q] ELSE DirNode],
          err |-> "ok"]

\* os.Remove: unlinks a file or removes an empty directory.
OsRemove(f, loc) ==
    IF loc \notin DOMAIN f THEN [fs |-> f, err |-> Errno(f, loc)]
    ELSE IF f[loc].dir /\ Children(f, loc) # {} THEN [fs |-> f, err |-> "ENOTEMPTY"]
    ELSE [fs |-> Without(f, {loc}), err |-> "ok"]

\* os.Rename (rename(2)).
OsRename(f, from, to) ==
    IF from \notin DOMAIN f THEN [fs |-> f, err |-> Errno(f, from)]
    ELSE IF to = Root \/ Dir(to) \notin DOMAIN f THEN [fs |-> f, err |-> IF to = Root THEN "EBUSY" ELSE Errno(f, Dir(to))]
    ELSE IF ~f[Dir(to)].dir THEN [fs |-> f, err |-> "ENOTDIR"]
    ELSE IF to = from THEN [fs |-> f, err |-> "ok"]
    ELSE IF IsUnder(to, from) THEN [fs |-> f, err |-> IF f[from].dir THEN "EINVAL" ELSE "ENOTDIR"]
    ELSE IF to \in DOMAIN f /\ f[from].dir /\ ~f[to].dir THEN [fs |-> f, err |-> "ENOTDIR"]
    ELSE IF to \in DOMAIN f /\ ~f[from].dir /\ f[to].dir THEN [fs |-> f, err |-> "EISDIR"]
    ELSE IF to \in DOMAIN f /\ f[to].dir /\ Children(f, to) # {} THEN [fs |-> f, err |-> "ENOTEMPTY"]
    ELSE LET moved == {loc \in DOMAIN f : IsUnder(loc, from)}
             rest == Without(f, moved \cup {to})
             target(loc) == to \o SubSeq(loc, Len(from) + 1, Len(loc))
         IN  [fs |-> [loc \in DOMAIN rest \cup {target(m) : m \in moved} |->
                        IF loc \in DOMAIN rest THEN rest[loc]
                        ELSE f[from \o SubSeq(loc, Len(to) + 1, Len(loc))]],
              err |-> "ok"]

\* The names of a directory's entries, sorted by name as os.ReadDir returns
\* them.
RECURSIVE SortNames(_)
SortNames(names) ==
    IF names = {} THEN <<>>
    ELSE LET least == CHOOSE n \in names : \A m \in names \ {n} : StrLess(n, m)
         IN  <<least>> \o SortNames(names \ {least})

OsReadDir(f, d) ==
    IF d \notin DOMAIN f THEN [names |-> <<>>, err |-> Errno(f, d)]
    ELSE IF ~f[d].dir THEN [names |-> <<>>, err |-> "ENOTDIR"]
    ELSE [names |-> SortNames({Last(loc) : loc \in Children(f, d)}), err |-> "ok"]

---------------------------------------------------------------------------
(* The store's helpers.  Each takes the disk (and the counter) and returns *)
(* the disk it leaves with the error it returns ("ok" for nil).            *)

\* sort.Slice(history, func(i, j) bool { return history[i] > history[j] }).
RECURSIVE SortDescending(_)
SortDescending(h) ==
    IF h = <<>> THEN <<>>
    ELSE LET i == CHOOSE j \in 1..Len(h) : \A k \in 1..Len(h) : h[j] >= h[k]
         IN  <<h[i]>> \o SortDescending(SubSeq(h, 1, i - 1) \o SubSeq(h, i + 1, Len(h)))

\* The generation of an entry, when FileHistory keeps it.
KeptGeneration(n, prefix, g) == IF HasPrefix(n, prefix) /\ g # 0 THEN <<g>> ELSE <<>>

\* The generations of the entries, in the order read, kept by FileHistory.
RECURSIVE MatchingGenerations(_, _)
MatchingGenerations(names, prefix) ==
    IF names = <<>> THEN <<>>
    ELSE KeptGeneration(names[1], prefix, getGenerationFromFileName(names[1]))
         \o MatchingGenerations(Tail(names), prefix)

\* FileHistory without its closing sort: the generations in the order in
\* which the directory yields their names.
FileHistory_Unsorted(f, path) ==
    LET entries == OsReadDir(f, Dir(realPath(path, TRUE)))
    IN  IF entries.err # "ok" THEN [history |-> <<>>, err |-> entries.err]
        ELSE [history |-> MatchingGenerations(entries.names, Base(path) \o <<At>>), err |-> "ok"]

\* The loop and the sort of FileHistory over the directory it has read.
HistoryOf(dir, prefix) ==
    IF dir.err # "ok" THEN [history |-> <<>>, err |-> dir.err]
    ELSE [history |-> SortDescending(MatchingGenerations(dir.names, prefix)), err |-> "ok"]

\* Store.FileHistory.
FileHistory(f, path) ==
    HistoryOf(OsReadDir(f, Dir(realPath(path, TRUE))), Base(path) \o <<At>>)

\* compareFiles: the sizes first, then the bytes (one 64000-byte chunk holds
\* every file of the model).  Reading a directory fails with EISDIR.
compareFiles(f, file1, file2) ==
    IF file1 \notin DOMAIN f THEN [eq |-> FALSE, err |-> Errno(f, file1)]
    ELSE IF file2 \notin DOMAIN f THEN [eq |-> FALSE, err |-> Errno(f, file2)]
    ELSE IF Size(f, file1) # Size(f, file2) THEN [eq |-> FALSE, err |-> "ok"]
    ELSE IF f[file1].dir \/ f[file2].dir
         THEN IF (~f[file1].dir /\ f[file1].data = <<>>) \/ (~f[file2].dir /\ f[file2].data = <<>>)
              THEN [eq |-> FALSE, err |-> "ok"]
              ELSE [eq |-> FALSE, err |-> "EISDIR"]
    ELSE [eq |-> \A i \in 1..Len(f[file1].data) : f[file1].data[i] = f[file2].data[i],
          err |-> "ok"]

\* io.Copy in copy: the bytes of the source into the opened target.
CopyData(opened, from, to) ==
    IF opened[from].dir THEN [fs |-> opened, err |-> "EISDIR"]
    ELSE [fs |-> [opened EXCEPT ![to] = FileNode(opened[from].data)], err |-> "ok"]

\* copy once the source is open: the directory of the target is made and the
\* target is opened (created, or truncated when overwrite is set).
CopyInto(f, made, from, to, overwrite) ==
    IF made.err # "ok" THEN [fs |-> f, err |-> made.err]
    ELSE IF to \in DOMAIN f /\ ~overwrite THEN [fs |-> made.fs, err |-> "EEXIST"]
    ELSE IF to \in DOMAIN f /\ f[to].dir THEN [fs |-> made.fs, err |-> "EISDIR"]
    ELSE CopyData([loc \in DOMAIN made.fs \cup {to} |->
                      IF loc = to THEN FileNode(<<>>) ELSE made.fs[loc]], from, to)

\* copy: the helper that copies a file.  The target is opened before the
\* first byte of the source is read.
copy(f, from, to, overwrite) ==
    IF from \notin DOMAIN f THEN [fs |-> f, err |-> Errno(f, from)]
    ELSE CopyInto(f, MkdirAll(f, Dir(to)), from, to, overwrite)

\* atomic.AddUint64(&S.Generation, 1).
AddUint(g) == (g + 1) % (MaxUint + 1)

\* captureHistory returns without a capture.
NoCapture(f, g, err) == [fs |-> f, gen |-> g, err |-> err, issued |-> <<>>]

\* The capture: the file is copied to the entry of the generation that
\* GetGeneration(true) has returned.  The error of copy is dropped.
CaptureAs(f, next, currentPath, path) ==
    [fs |-> copy(f, currentPath, historyPath(path, next), FALSE).fs,
     gen |-> next, err |-> "ok", issued |-> <<next>>]

\* captureHistory once the file has been compared with its newest entry.
CaptureUnless(f, g, path, currentPath, cmp) ==
    IF cmp.err # "ok" THEN NoCapture(f, g, cmp.err)
    ELSE IF cmp.eq THEN NoCapture(f, g, "ok")
    ELSE CaptureAs(f, AddUint(g), currentPath, path)

\* captureHistory once FileHistory has returned.
CaptureAfter(f, g, path, currentPath, h) ==
    IF h.err # "ok" THEN NoCapture(f, g, h.err)
    ELSE CaptureUnless(f, g, path, currentPath,
                       IF h.history # <<>>
                       THEN compareFiles(f, currentPath, historyPath(path, h.history[1]))
                       ELSE [eq |-> FALSE, err |-> "ok"])

\* captureHistory once the path has been checked.
CaptureExisting(f, g, path, currentPath) ==
    IF Errno(f, currentPath) = "ENOENT" THEN NoCapture(f, g, "ok")
    ELSE CaptureAfter(f, g, path, currentPath, FileHistory(f, path))

\* captureHistory without its call of checkPath.
captureHistory_Unchecked(f, g, path) == CaptureExisting(f, g, path, realPath(path, FALSE))

\* Store.captureHistory.  issued lists the generations it took from the
\* counter.
captureHistory(f, g, path) ==
    IF checkPath(path) THEN NoCapture(f, g, "ErrIllegalPath")
    ELSE CaptureExisting(f, g, path, realPath(path, FALSE))

\* cleanDirectory: removes an empty directory and, in turn, its empty
\* parents.  Above the root lies the directory that holds the store, which
\* the model does not follow.
RECURSIVE cleanDirectory(_, _)
cleanDirectory(f, loc) ==
    IF loc \notin DOMAIN f THEN [fs |-> f, err |-> Errno(f, loc)]
    ELSE IF ~f[loc].dir THEN [fs |-> f, err |-> "ok"]
    ELSE IF Children(f, loc) # {} THEN [fs |-> f, err |-> "ok"]
    ELSE IF loc = Root THEN [fs |-> Without(f, {loc}), err |-> "ok"]
    ELSE cleanDirectory(Without(f, {loc}), Dir(loc))

---------------------------------------------------------------------------
(* Opening a store: the sweeps of New and the recovery of the counter.     *)

\* mark (in cleanDirectoryStructure): a directory is unneeded when each of
\* its entries is an unneeded directory.
RECURSIVE Unneeded(_, _)
Unneeded(f, d) == \A c \in Children(f, d) : f[c].dir /\ Unneeded(f, c)

\* The removals of cleanDirectoryStructure made the shallowest locations
\* first.
RECURSIVE RemoveShallowestFirst(_, _)
RemoveShallowestFirst(f, toBeDeleted) ==
    IF toBeDeleted = {} THEN f
    ELSE LET d == CHOOSE x \in toBeDeleted : \A y \in toBeDeleted : Len(x) <= Len(y)
         IN  RemoveShallowestFirst(OsRemove(f, d).fs, toBeDeleted \ {d})

\* The removals of cleanDirectoryStructure, the deepest locations first;
\* a removal that fails is skipped.
RECURSIVE RemoveDeepestFirst(_, _)
RemoveDeepestFirst(f, toBeDeleted) ==
    IF toBeDeleted = {} THEN f
    ELSE LET d == CHOOSE x \in toBeDeleted : \A y \in toBeDeleted : Len(x) >= Len(y)
         IN  RemoveDeepestFirst(OsRemove(f, d).fs, toBeDeleted \ {d})

cleanDirectoryStructure(f, path) ==
    RemoveDeepestFirst(f, {d \in DOMAIN f : IsUnder(d, path) /\ f[d].dir /\ Unneeded(f, d)} \ {path})

\* fixIllegalFilenames.  A directory is read in no particular order, so the
\* result is the set of disks that some order of its entries leaves.
RECURSIVE fixChildrenOf(_, _, _)
RECURSIVE FixEntries(_, _, _, _, _)
\* fixChildrenOf without the skip of <path>/.history.
fixChildrenOf_NoSkip(f, path, currentPath) ==
    IF currentPath \notin DOMAIN f \/ ~f[currentPath].dir THEN {f}
    ELSE LET names == {Last(c) : c \in Children(f, currentPath)}
         IN  FixEntries(f, path, currentPath, names, [n \in names |-> f[currentPath \o <<n>>].dir])

FixEntries(f, path, currentPath, names, wasDir) ==
    IF names = {} THEN {f}
    ELSE UNION {
           UNION {
             FixEntries(IF checkPath(n)
                        THEN OsRename(f1, currentPath \o <<n>>, currentPath \o Elements(fixPath(n))).fs
                        ELSE f1,
                        path, currentPath, names \ {n}, wasDir)
             : f1 \in IF wasDir[n] THEN fixChildrenOf(f, path, currentPath \o <<n>>) ELSE {f} }
           : n \in names }

fixChildrenOf(f, path, currentPath) ==
    IF currentPath \notin DOMAIN f \/ ~f[currentPath].dir THEN {f}
    ELSE LET names == {Last(c) : c \in Children(f, currentPath)}
                      \ (IF path = currentPath THEN {HistoryName} ELSE {})
         IN  FixEntries(f, path, currentPath, names, [n \in names |-> f[currentPath \o <<n>>].dir])

fixIllegalFilenames(f, path) == fixChildrenOf(f, path, path)

\* The walk of New over the history tree: the largest generation above the
\* starting value that a name yields.
RECURSIVE WalkGeneration(_, _)
WalkGeneration(generation, locs) ==
    IF locs = {} THEN generation
    ELSE LET loc == CHOOSE x \in locs : TRUE
             g == getGenerationFromFileName(JoinSlash(loc))
         IN  WalkGeneration(IF g > generation THEN g ELSE generation, locs \ {loc})

\* The counter New starts from before it looks at the disk.
StartGeneration == 1

\* New with a counter that starts from 0.
New_FromZero(disk) ==
    { LET made == MkdirAll(fixed, <<HistoryName>>)
      IN  [fs |-> made.fs,
           gen |-> IF made.err # "ok" THEN 0
                   ELSE WalkGeneration(0, {loc \in DOMAIN made.fs : IsUnder(loc, <<HistoryName>>)}),
           err |-> made.err]
      : fixed \in fixIllegalFilenames(cleanDirectoryStructure(disk, Root), Root) }

\* The end of New: the history directory is made and the tree below it is
\* walked for the counter.
OpenedStore(made) ==
    [fs |-> made.fs,
     gen |-> IF made.err # "ok" THEN StartGeneration
             ELSE WalkGeneration(StartGeneration,
                                 {loc \in DOMAIN made.fs : IsUnder(loc, <<HistoryName>>)}),
     err |-> made.err]

\* New: the set of stores that opening the disk may give.
New(disk) ==
    { OpenedStore(MkdirAll(fixed, <<HistoryName>>))
      : fixed \in fixIllegalFilenames(cleanDirectoryStructure(disk, Root), Root) }

---------------------------------------------------------------------------
(* The public operations, as functions of the disk and the counter.        *)

Result(f, g, err, new, out) == [fs |-> f, gen |-> g, err |-> err, issued |-> new, out |-> out]

None == <<"none">>

\* Store.GetGeneration.
GetGeneration(f, g, increment) ==
    IF increment THEN Result(f, AddUint(g), "ok", <<AddUint(g)>>, AddUint(g))
    ELSE Result(f, g, "ok", <<>>, g)

\* A call ends with the disk and the error of its last step.
Finish(r, g, new) == Result(r.fs, g, r.err, new, None)

\* Write that opens (and so truncates) the file before it captures it.
Write_TruncateFirst(f, g, path, data) ==
    LET loc == realPath(path, FALSE)
        made == MkdirAll(f, Dir(loc))
        opened == [q \in DOMAIN made.fs \cup {loc} |-> IF q = loc THEN FileNode(<<>>) ELSE made.fs[q]]
        c == captureHistory(opened, g, path)
    IN  IF checkPath(path) THEN Result(f, g, "ErrIllegalPath", <<>>, None)
        ELSE IF made.err # "ok" THEN Result(f, g, made.err, <<>>, None)
        ELSE IF loc \in DOMAIN made.fs /\ made.fs[loc].dir THEN Result(made.fs, g, "EISDIR", <<>>, None)
        ELSE IF c.err # "ok" THEN Result(c.fs, c.gen, c.err, c.issued, None)
        ELSE Result([c.fs EXCEPT ![loc] = FileNode(data)], c.gen, "ok", c.issued, None)

\* os.OpenFile(..., O_CREATE|O_RDWR|O_TRUNC) in Write, and the caller's
\* writing of data to the file.
WriteFile(made, loc, data, c) ==
    IF made.err # "ok" THEN Result(c.fs, c.gen, made.err, c.issued, None)
    ELSE IF loc \in DOMAIN made.fs /\ made.fs[loc].dir
         THEN Result(made.fs, c.gen, "EISDIR", c.issued, None)
    ELSE Result([q \in DOMAIN made.fs \cup {loc} |-> IF q = loc THEN FileNode(data) ELSE made.fs[q]],
                c.gen, "ok", c.issued, None)

\* Write once captureHistory has returned.
WriteCaptured(c, loc, data) ==
    IF c.err # "ok" THEN Result(c.fs, c.gen, c.err, c.issued, None)
    ELSE WriteFile(MkdirAll(c.fs, Dir(loc)), loc, data, c)

\* Store.Write, together with the caller writing data to the file returned
\* and closing it.
Write(f, g, path, data) ==
    WriteCaptured(captureHistory(f, g, path), realPath(path, FALSE), data)

\* Open with os.OpenFile and O_CREATE: a file that is missing is made.
OpenAt_Create(f, g, loc) ==
    IF loc \in DOMAIN f THEN Result(f, g, "ok", <<>>, f[loc])
    ELSE IF loc = Root \/ Dir(loc) \notin DOMAIN f \/ ~f[Dir(loc)].dir
    THEN Result(f, g, Errno(f, loc), <<>>, None)
    ELSE Result([q \in DOMAIN f \cup {loc} |-> IF q = loc THEN FileNode(<<>>) ELSE f[q]],
                g, "ok", <<>>, FileNode(<<>>))

\* os.Open in Open, together with the caller reading the file to its end.
OpenAt(f, g, loc) ==
    IF loc \notin DOMAIN f THEN Result(f, g, Errno(f, loc), <<>>, None)
    ELSE Result(f, g, "ok", <<>>, f[loc])

\* Store.Open.
Open(f, g, path, generation) ==
    OpenAt(f, g, IF generation = 0 THEN realPath(path, FALSE) ELSE historyPath(path, generation))

\* Copy once captureHistory has returned.
CopyCaptured(c, from, to) ==
    IF c.err # "ok" THEN Result(c.fs, c.gen, c.err, c.issued, None)
    ELSE Finish(copy(c.fs, realPath(from, FALSE), realPath(to, FALSE), TRUE), c.gen, c.issued)

\* Store.Copy.
Copy(f, g, from, to) == CopyCaptured(captureHistory(f, g, to), from, to)

\* Move that copies the file to its new place and leaves the old one.
Move_KeepSource(f, g, from, to) ==
    LET c1 == captureHistory(f, g, to)
        c2 == captureHistory(c1.fs, c1.gen, from)
        r == copy(c2.fs, realPath(from, FALSE), realPath(to, FALSE), TRUE)
        cl == cleanDirectory(r.fs, Dir(realPath(to, FALSE)))
    IN  IF c1.err # "ok" THEN Result(c1.fs, c1.gen, c1.err, c1.issued, None)
        ELSE IF c2.err # "ok" THEN Result(c2.fs, c2.gen, c2.err, c1.issued \o c2.issued, None)
        ELSE IF r.err # "ok" THEN Result(r.fs, c2.gen, r.err, c1.issued \o c2.issued, None)
        ELSE Result(cl.fs, c2.gen, cl.err, c1.issued \o c2.issued, None)

\* Move and Remove once the file is renamed or deleted: the directory dir is
\* cleaned, and the error of that is the error of the call.
Cleaned(r, g, new, dir) ==
    IF r.err # "ok" THEN Result(r.fs, g, r.err, new, None)
    ELSE Finish(cleanDirectory(r.fs, dir), g, new)

\* Move that clears the destination before it renames the source.
MoveCaptured_ClearDestination(c2, new, from, to) ==
    IF c2.err # "ok" THEN Result(c2.fs, c2.gen, c2.err, new \o c2.issued, None)
    ELSE Cleaned(OsRename(OsRemove(c2.fs, realPath(to, FALSE)).fs,
                          realPath(from, FALSE), realPath(to, FALSE)),
                 c2.gen, new \o c2.issued, Dir(realPath(to, FALSE)))

\* Move once both captures have returned.
MoveCaptured(c2, new, from, to) ==
    IF c2.err # "ok" THEN Result(c2.fs, c2.gen, c2.err, new \o c2.issued, None)
    ELSE Cleaned(OsRename(c2.fs, realPath(from, FALSE), realPath(to, FALSE)),
                 c2.gen, new \o c2.issued, Dir(realPath(to, FALSE)))

\* Move once the capture of the destination has returned.
MoveToCaptured(c1, from, to) ==
    IF c1.err # "ok" THEN Result(c1.fs, c1.gen, c1.err, c1.issued, None)
    ELSE MoveCaptured(captureHistory(c1.fs, c1.gen, from), c1.issued, from, to)

\* Store.Move.
Move(f, g, from, to) == MoveToCaptured(captureHistory(f, g, to), from, to)

\* Remove once captureHistory has returned.
RemoveCaptured(c, loc) ==
    IF c.err # "ok" THEN Result(c.fs, c.gen, c.err, c.issued, None)
    ELSE Cleaned(OsRemove(c.fs, loc), c.gen, c.issued, Dir(loc))

\* Store.Remove.
Remove(f, g, path) == RemoveCaptured(captureHistory(f, g, path), realPath(path, FALSE))

\* Store.List.
RECURSIVE List(_, _, _, _)
RECURSIVE ListEntries(_, _, _, _, _, _)

\* The entries of a directory within the listing of its parent.
Listed(f, path, history, recursive, names, listing, children) ==
    IF children.err # "ok" THEN [listing |-> listing, err |-> children.err]
    ELSE ListEntries(f, path, history, recursive, Tail(names), listing \o children.listing)

\* The name of an entry without its "@" and what follows it.
StripGeneration(name) == Split(name, At)[1]

\* One entry of a List that, for history, strips the generation from the
\* name and lists a name once.
ListEntry_Stripped(f, path, history, recursive, names, listing, entryPath, isDir) ==
    IF names[1] = HistoryName THEN ListEntries(f, path, history, recursive, Tail(names), listing)
    ELSE IF ~isDir
         THEN ListEntries(f, path, history, recursive, Tail(names),
                          IF ~history THEN Append(listing, entryPath)
                          ELSE IF \E i \in 1..Len(listing) : listing[i] = StripGeneration(entryPath)
                               THEN listing
                               ELSE Append(listing, StripGeneration(entryPath)))
    ELSE IF ~recursive THEN ListEntries(f, path, history, recursive, Tail(names), listing)
    ELSE Listed(f, path, history, recursive, names, listing, List(f, entryPath, history, TRUE))

\* One entry of the loop of List.
ListEntry(f, path, history, recursive, names, listing, entryPath, isDir) ==
    IF names[1] = HistoryName THEN ListEntries(f, path, history, recursive, Tail(names), listing)
    ELSE IF ~isDir THEN ListEntries(f, path, history, recursive, Tail(names), Append(listing, entryPath))
    ELSE IF ~recursive THEN ListEntries(f, path, history, recursive, Tail(names), listing)
    ELSE Listed(f, path, history, recursive, names, listing, List(f, entryPath, history, TRUE))

ListEntries(f, path, history, recursive, names, listing) ==
    IF names = <<>> THEN [listing |-> listing, err |-> "ok"]
    ELSE ListEntry(f, path, history, recursive, names, listing, Join2(path, names[1]),
                   f[realPath(path, history) \o <<names[1]>>].dir)

\* List once the directory is read.
ListRead(f, path, history, recursive, entries) ==
    IF entries.err # "ok" THEN [listing |-> <<>>, err |-> entries.err]
    ELSE ListEntries(f, path, history, recursive, entries.names, <<>>)

List(f, path, history, recursive) ==
    ListRead(f, path, history, recursive, OsReadDir(f, realPath(path, history)))

\* os.Stat in Stat.
StatAt(f, g, loc) ==
    IF loc \notin DOMAIN f THEN Result(f, g, Errno(f, loc), <<>>, None)
    ELSE Result(f, g, "ok", <<>>, [dir |-> f[loc].dir, size |-> Size(f, loc)])

\* Store.Stat.
Stat(f, g, path, history) ==
    IF checkPath(path) THEN Result(f, g, "ErrIllegalPath", <<>>, None)
    ELSE StatAt(f, g, realPath(path, history))

\* The results of List and FileHistory, which leave the store as it is.
Listing(f, g, l) == Result(f, g, l.err, <<>>, l.listing)

Generations(f, g, h) == Result(f, g, h.err, <<>>, h.history)

---------------------------------------------------------------------------
(* The inputs of the model.                                                *)

File == <<"f", "i", "l", "e">>
DirName == <<"d", "i", "r">>
DirFile == DirName \o <<Slash>> \o File

\* File contents.
Hello == <<"H", "e", "l", "l", "o", "!">>
World == <<"W", "o", "r", "l", "d", "!">>
Contents == {Hello, World}

\* Paths that checkPath accepts: two files, a name that may be a directory
\* or a file, and two other spellings of "file".
LegalPaths == {File, DirFile, DirName, File \o <<Slash, Dot>>, <<Slash>> \o File}

\* Paths that checkPath refuses: the empty path, an all-dots path, an
\* element that begins with a dot, and an "@".
IllegalPaths == {<<>>, DotDot, DirName \o <<Slash, Dot>> \o File, File \o <<At, "1">>}

Paths == LegalPaths \cup IllegalPaths

\* The arguments of the calls that take two paths, and of List (the root,
\* a directory, the root by another spelling, the history directory) and
\* Stat.
PairPaths == {File, DirFile, DirName, <<Slash>> \o File, File \o <<At, "1">>}

ListPaths == {<<>>, DirName, DotDot, HistoryName}

StatPaths == {File, DirName, <<>>, DirName \o <<Slash, Dot>> \o File, File \o <<At, "1">>}

\* The disks a store is first opened on: an empty directory; a tree like the
\* one of the tests (an empty historic entry dir/file@123 beside dir/file,
\* and an empty directory); a tree whose next generations have two digits.
EmptyDisk == (Root :> DirNode)

TestDisk ==
    (Root :> DirNode)
    @@ (<<HistoryName>> :> DirNode)
    @@ (<<HistoryName, DirName>> :> DirNode)
    @@ (<<HistoryName, DirName, File \o <<At, "1", "2", "3">>>> :> FileNode(<<>>))
    @@ (<<DirName>> :> DirNode)
    @@ (<<DirName, File>> :> FileNode(Hello))
    @@ (<<<<"e">>>> :> DirNode)
    @@ (<<<<"e">>, DirName>> :> DirNode)

NineDisk ==
    (Root :> DirNode)
    @@ (<<HistoryName>> :> DirNode)
    @@ (<<HistoryName, File \o <<At, "9">>>> :> FileNode(Hello))
    @@ (<<File>> :> FileNode(World))

InitialDisks == {EmptyDisk, TestDisk, NineDisk}

---------------------------------------------------------------------------
(* The state machine.  fs is the disk and gen the counter of the open      *)
(* store.  issued lists every generation the store has handed out since it *)
(* was first opened (it outlives a reopening).  last is what the single    *)
(* caller holds between a call's return and its next call: the call, its   *)
(* result, and the disk and counter the call found.                        *)

Call(op, a, b, data, n, history, recursive) == [op |-> op, a |-> a, b |-> b, data |-> data, n |-> n, history |-> history, recursive |-> recursive]

\* The record the caller holds of a call: its arguments, its result, and
\* the disk and the counter the call found.
Record(call, r) ==
    [op |-> call.op, a |-> call.a, b |-> call.b, data |-> call.data, n |-> call.n,
     history |-> call.history, recursive |-> call.recursive,
     err |-> r.err, out |-> r.out, fs |-> fs, gen |-> gen]

\* The caller holds no result.
Idle ==
    [op |-> "idle", a |-> <<>>, b |-> <<>>, data |-> <<>>, n |-> 0,
     history |-> FALSE, recursive |-> FALSE,
     err |-> "ok", out |-> None, fs |-> Root, gen |-> 0]

\* The store takes the result of a call.
Apply(call, r) ==
    /\ last = Idle
    /\ Len(issued \o r.issued) <= MaxIssue
    /\ fs' = r.fs
    /\ gen' = r.gen
    /\ issued' = issued \o r.issued
    /\ last' = Record(call, r)

Init ==
    \E disk \in InitialDisks : \E s \in New(disk) :
        /\ s.err = "ok"
        /\ fs = s.fs
        /\ gen = s.gen
        /\ issued = <<>>
        /\ last = [op |-> "New", a |-> <<>>, b |-> <<>>, data |-> <<>>, n |-> 0,
                   history |-> FALSE, recursive |-> FALSE,
                   err |-> s.err, out |-> None, fs |-> disk, gen |-> 0]

\* The store is closed and opened again on the same root.
Reopen ==
    \E s \in New(fs) :
        /\ last = Idle
        /\ s.err = "ok"
        /\ fs' = s.fs
        /\ gen' = s.gen
        /\ issued' = issued
        /\ last' = [op |-> "New", a |-> <<>>, b |-> <<>>, data |-> <<>>, n |-> 0,
                    history |-> FALSE, recursive |-> FALSE,
                    err |-> s.err, out |-> None, fs |-> fs, gen |-> gen]

DoWrite ==
    \E path \in Paths, data \in Contents :
        Apply(Call("Write", path, <<>>, data, 0, FALSE, FALSE), Write(fs, gen, path, data))

DoOpen ==
    \E path \in Paths, n \in {0, gen} :
        Apply(Call("Open", path, <<>>, <<>>, n, FALSE, FALSE), Open(fs, gen, path, n))

DoCopy ==
    \E from \in PairPaths, to \in PairPaths :
        Apply(Call("Copy", from, to, <<>>, 0, FALSE, FALSE), Copy(fs, gen, from, to))

DoMove ==
    \E from \in PairPaths, to \in PairPaths :
        Apply(Call("Move", from, to, <<>>, 0, FALSE, FALSE), Move(fs, gen, from, to))

DoRemove ==
    \E path \in Paths :
        Apply(Call("Remove", path, <<>>, <<>>, 0, FALSE, FALSE), Remove(fs, gen, path))

DoList ==
    \E path \in ListPaths, history \in BOOLEAN, recursive \in BOOLEAN :
        Apply(Call("List", path, <<>>, <<>>, 0, history, recursive),
              Listing(fs, gen, List(fs, path, history, recursive)))

DoFileHistory ==
    \E path \in Paths :
        Apply(Call("FileHistory", path, <<>>, <<>>, 0, FALSE, FALSE),
              Generations(fs, gen, FileHistory(fs, path)))

DoStat ==
    \E path \in StatPaths, history \in BOOLEAN :
        Apply(Call("Stat", path, <<>>, <<>>, 0, history, FALSE), Stat(fs, gen, path, history))

DoGetGeneration ==
    \E increment \in BOOLEAN :
        Apply(Call("GetGeneration", <<>>, <<>>, <<>>, 0, increment, FALSE),
              GetGeneration(fs, gen, increment))

\* The caller is done with the result of its call.
Return ==
    /\ last # Idle
    /\ last' = Idle
    /\ UNCHANGED <<fs, gen, issued>>

Next ==
    \/ Return
    \/ DoWrite
    \/ DoOpen
    \/ DoCopy
    \/ DoMove
    \/ DoRemove
    \/ DoList
    \/ DoFileHistory
    \/ DoStat
    \/ DoGetGeneration
    \/ Reopen

Spec == Init /\ [][Next]_vars

---------------------------------------------------------------------------
(* What a caller can observe of a disk.                                    *)

\* The generations Store.FileHistory returns for a path.
History(f, path) == FileHistory(f, path).history

\* The node Store.Open yields: the current file for generation 0, else the
\* historic entry of that generation; None when the call fails.
Opened(f, path, generation) == Open(f, 0, path, generation).out

\* The path names a regular file of the current tree.
HasCurrentFile(f, path) ==
    realPath(path, FALSE) \in DOMAIN f /\ ~f[realPath(path, FALSE)].dir

\* The current node of a path.
Current(f, path) == f[realPath(path, FALSE)]

\* The historic entries of a path on disk: the names <path>@... beside its
\* place in the history tree.
HistoricEntries(f, path) ==
    LET loc == realPath(path, TRUE)
    IN  {e \in DOMAIN f : Len(e) = Len(loc) /\ Len(loc) > 1 /\ Front(e) = Front(loc)
                          /\ HasPrefix(Last(e), Last(loc) \o <<At>>)}

Legal(path) == path \in LegalPaths

---------------------------------------------------------------------------
(* Claims.                                                                 *)

\* C1: for every legal path p whose current file holds c0, after a
\* successful Write(p) (and the caller's writing) History(p) is not empty and
\* its newest generation opens to c0.
C1_WriteKeepsPreviousContent ==
    (last.op = "Write" /\ last.err = "ok" /\ Legal(last.a) /\ HasCurrentFile(last.fs, last.a))
    => /\ History(fs, last.a) # <<>>
       /\ Opened(fs, last.a, History(fs, last.a)[1]) = Current(last.fs, last.a)

\* C1, for the paths whose last element is spelled as in their cleaned form.
C1_WriteKeepsPreviousContentOfCleanName ==
    (last.op = "Write" /\ last.err = "ok" /\ Legal(last.a) /\ HasCurrentFile(last.fs, last.a)
     /\ Base(last.a) = Last(realPath(last.a, FALSE)))
    => /\ History(fs, last.a) # <<>>
       /\ Opened(fs, last.a, History(fs, last.a)[1]) = Current(last.fs, last.a)

\* C2: the generations the store issues, across its calls and its
\* reopenings, are strictly increasing, so none is issued twice.
C2_IssuedStrictlyIncreasing ==
    \A i \in 1..Len(issued) : \A j \in 1..Len(issued) : i < j => issued[i] < issued[j]

\* The new historic entries of a path on disk g that disk f did not have.
NewEntries(f, g, path) == HistoricEntries(g, path) \ HistoricEntries(f, path)

\* The call the caller has just seen succeed, made once more on the disk it left.
WriteAgain == Write(fs, gen, last.a, last.data)

\* C3: two successive Write(p) calls that each store the identical content c
\* create exactly one new historic entry for p between them.
C3_TwoWritesOneEntry ==
    (last.op = "Write" /\ last.err = "ok" /\ Legal(last.a) /\ WriteAgain.err = "ok")
    => Cardinality(NewEntries(last.fs, WriteAgain.fs, last.a)) = 1

\* C3 as the code has it: of two successive Write(p) calls that store the
\* identical content c, each creates at most one historic entry for p; the
\* first call's entry holds what p held before, the second call's holds c.
C3_TwoWritesAtMostOneEntryEach ==
    (last.op = "Write" /\ last.err = "ok" /\ Legal(last.a) /\ WriteAgain.err = "ok")
    => /\ Cardinality(NewEntries(last.fs, fs, last.a)) <= 1
       /\ \A e \in NewEntries(last.fs, fs, last.a) :
              HasCurrentFile(last.fs, last.a) /\ fs[e] = Current(last.fs, last.a)
       /\ Cardinality(NewEntries(fs, WriteAgain.fs, last.a)) <= 1
       /\ \A e \in NewEntries(fs, WriteAgain.fs, last.a) : WriteAgain.fs[e] = FileNode(last.data)
       /\ Current(WriteAgain.fs, last.a) = FileNode(last.data)

\* Two identical writes that leave two entries: one of the earlier content,
\* one of c.
C3_Witness ==
    /\ last.op = "Write" /\ last.err = "ok" /\ Legal(last.a) /\ WriteAgain.err = "ok"
    /\ Cardinality(NewEntries(last.fs, fs, last.a)) = 1
    /\ Cardinality(NewEntries(fs, WriteAgain.fs, last.a)) = 1

\* The newest generation of History(path) opens to node.
NewestOpensTo(f, path, node) ==
    History(f, path) # <<>> /\ Opened(f, path, History(f, path)[1]) = node

\* Every generation History(path) had on disk f is in History(path) on disk
\* g and opens to what it opened to.
KeepsHistory(f, g, path) ==
    \A i \in 1..Len(History(f, path)) :
        /\ \E j \in 1..Len(History(g, path)) : History(g, path)[j] = History(f, path)[i]
        /\ Opened(g, path, History(f, path)[i]) = Opened(f, path, History(f, path)[i])

\* C4: for a legal path a holding c and a legal path b, after Copy(a, b)
\* succeeds both Open(b, 0) and Open(a, 0) return c, and if b held a
\* different content before, the newest generation of History(b) opens to it.
C4_CopyKeepsBoth ==
    (last.op = "Copy" /\ last.err = "ok" /\ Legal(last.a) /\ Legal(last.b)
     /\ HasCurrentFile(last.fs, last.a))
    => /\ Opened(fs, last.b, 0) = Current(last.fs, last.a)
       /\ Opened(fs, last.a, 0) = Current(last.fs, last.a)
       /\ (HasCurrentFile(last.fs, last.b) /\ Current(last.fs, last.b) # Current(last.fs, last.a))
          => NewestOpensTo(fs, last.b, Current(last.fs, last.b))

\* C4, for two paths that name different files.
C4_CopyKeepsBothOfDifferentFiles ==
    (last.op = "Copy" /\ last.err = "ok" /\ Legal(last.a) /\ Legal(last.b)
     /\ HasCurrentFile(last.fs, last.a) /\ realPath(last.a, FALSE) # realPath(last.b, FALSE))
    => /\ Opened(fs, last.b, 0) = Current(last.fs, last.a)
       /\ Opened(fs, last.a, 0) = Current(last.fs, last.a)
       /\ (HasCurrentFile(last.fs, last.b) /\ Current(last.fs, last.b) # Current(last.fs, last.a))
          => NewestOpensTo(fs, last.b, Current(last.fs, last.b))

C6_RemoveKeepsHistory ==
    (last.op = "Remove" /\ last.err = "ok" /\ Legal(last.a) /\ HasCurrentFile(last.fs, last.a))
    => /\ Open(fs, gen, last.a, 0).err # "ok"
       /\ KeepsHistory(last.fs, fs, last.a)
       /\ NewestOpensTo(fs, last.a, Current(last.fs, last.a))

\* C6, for the paths whose last element is spelled as in their cleaned form.
C6_RemoveKeepsHistoryOfCleanName ==
    (last.op = "Remove" /\ last.err = "ok" /\ Legal(last.a) /\ HasCurrentFile(last.fs, last.a)
     /\ Base(last.a) = Last(realPath(last.a, FALSE)))
    => /\ Open(fs, gen, last.a, 0).err # "ok"
       /\ KeepsHistory(last.fs, fs, last.a)
       /\ NewestOpensTo(fs, last.a, Current(last.fs, last.a))

\* The call was refused with ErrIllegalPath.
Refused == last.err = "ErrIllegalPath"

\* The call left the disk and the counter as it found them.
Untouched == fs = last.fs /\ gen = last.gen

C7_UncheckedWitness ==
    last.op \in {"Open", "List", "FileHistory"} /\ last.a \in IllegalPaths /\ last.err = "ok"

\* C8: for every path and every reachable disk, FileHistory returns the
\* generations sorted strictly descending, the newest first.
C8_HistoryDescending ==
    last.op = "FileHistory"
    => \A i \in 1..Len(last.out) : \A j \in 1..Len(last.out) : i < j => last.out[i] > last.out[j]

\* FileHistory has returned two generations or more.
C8_Witness ==
    last.op = "FileHistory" /\ last.err = "ok" /\ Len(last.out) >= 2 /\ last.out = History(fs, last.a)

\* The scenario of C9: a store opened on an empty directory, in which
\* "dir/file" is written with "Hello!", then with "World!", then removed.
Scenario0 == CHOOSE s \in New(EmptyDisk) : TRUE

Scenario1 == Write(Scenario0.fs, Scenario0.gen, DirFile, Hello)

Scenario2 == Write(Scenario1.fs, Scenario1.gen, DirFile, World)

\* C9: in that scenario, after the second write History("dir/file") is
\* [2, 1], generation 1 opens to "Hello!" and the current file holds
\* "World!"; after the removal the history is [3, 2, 1], generation 3 opens
\* to "World!" and Open("dir/file", 0) fails with not-found.
C9_Scenario ==
    /\ (last.op = "Write" /\ last.a = DirFile /\ last.data = World
        /\ last.fs = Scenario1.fs /\ last.gen = Scenario1.gen /\ Scenario1.err = "ok")
       => /\ last.err = "ok"
          /\ History(fs, DirFile) = <<2, 1>>
          /\ Opened(fs, DirFile, 1) = FileNode(Hello)
          /\ Opened(fs, DirFile, 0) = FileNode(World)
    /\ (last.op = "Remove" /\ last.a = DirFile
        /\ last.fs = Scenario2.fs /\ last.gen = Scenario2.gen /\ Scenario2.err = "ok")
       => /\ last.err = "ok"
          /\ History(fs, DirFile) = <<3, 2, 1>>
          /\ Opened(fs, DirFile, 3) = FileNode(World)
          /\ Open(fs, gen, DirFile, 0).err = "ENOENT"

\* The largest of a set of numbers.
Max(S) == CHOOSE x \in S : \A y \in S : x >= y

\* The generations that the names of the entries of the history tree end in.
GenerationsOnDisk(f) ==
    {g \in 1..MaxUint : \E loc \in DOMAIN f :
        IsUnder(loc, <<HistoryName>>) /\ HasSuffix(Last(loc), <<At>> \o FormatUint(g))}

C10_WitnessNone ==
    last.op = "New" /\ GenerationsOnDisk(fs) = {} /\ gen = 1


---------------------------------------------------------------------------
(* Names of historic entries: getGenerationFromFileName on its own, and a  *)
(* store opened on a history directory that holds one entry of that name.  *)

\* The longest text a name carries after its first letter.
MaxSuffix == 4

\* The characters of that text: "@", digits that spell numbers on both sides
\* of the largest unsigned integer, and a letter.
SuffixChars == {At, "2", "5", "6", "x"}

Suffixes == UNION {[1..k -> SuffixChars] : k \in 0..MaxSuffix}

\* The names: a file's name, alone or below a directory whose own name ends
\* in a generation.
Names ==
    {prefix \o <<"f">> \o suffix : prefix \in {<<>>, <<"d", At, "5", Slash>>}, suffix \in Suffixes}

\* A store directory whose history directory holds one file of that name.
NamedDisk(name) ==
    (Root :> DirNode) @@ (<<HistoryName>> :> DirNode) @@ (<<HistoryName, name>> :> FileNode(Hello))

NameGiven(name) ==
    [op |-> "name", a |-> name, b |-> <<>>, data |-> <<>>, n |-> 0,
     history |-> FALSE, recursive |-> FALSE,
     err |-> "ok", out |-> None, fs |-> Root, gen |-> 0]

InitNames ==
    \E name \in Names :
        /\ fs = IF Contains(name, Slash) THEN EmptyDisk ELSE NamedDisk(name)
        /\ gen = 0
        /\ issued = <<>>
        /\ last = NameGiven(name)

\* getGenerationFromFileName is applied to the name.
ScanName ==
    /\ last.op = "name"
    /\ last' = [last EXCEPT !.op = "getGenerationFromFileName",
                            !.out = getGenerationFromFileName(last.a)]
    /\ UNCHANGED <<fs, gen, issued>>

\* A store is opened on the directory that holds the entry.
OpenNamed ==
    \E s \in New(fs) :
        /\ last.op = "name"
        /\ ~Contains(last.a, Slash)
        /\ s.err = "ok"
        /\ fs' = s.fs
        /\ gen' = s.gen
        /\ last' = [last EXCEPT !.op = "New", !.fs = fs]
        /\ UNCHANGED issued

\* The history of the file "f" is asked of the opened store.
HistoryNamed ==
    /\ last.op = "New"
    /\ last' = [last EXCEPT !.op = "FileHistory", !.b = <<"f">>,
                            !.err = FileHistory(fs, <<"f">>).err,
                            !.out = FileHistory(fs, <<"f">>).history]
    /\ UNCHANGED <<fs, gen, issued>>

NextNames ==
    \/ ScanName
    \/ OpenNamed
    \/ HistoryNamed

SpecNames == InitNames /\ [][NextNames]_vars

\* The final segment of a name and the text after its last "@".
FinalSegment(name) == Last(Split(name, Slash))

RECURSIVE AfterLastAt(_)
AfterLastAt(seg) ==
    IF ~Contains(seg, At) THEN seg ELSE AfterLastAt(Tail(seg))

\* The number a text of digits spells.
RECURSIVE Decimal(_)
Decimal(t) == IF t = <<>> THEN 0 ELSE Decimal(Front(t)) * 10 + DigitValue(Last(t))

AllDigits(t) == t # <<>> /\ \A i \in 1..Len(t) : IsDigit(t[i])

\* The text after the last "@" spells a number beyond the unsigned range.
OutOfRange(name) ==
    /\ Contains(FinalSegment(name), At)
    /\ AllDigits(AfterLastAt(FinalSegment(name)))
    /\ Decimal(AfterLastAt(FinalSegment(name))) > MaxUint

\* The final segment has no "@", or the text after its last "@" is empty,
\* has a character that is not a digit, or spells a number out of range.
Unparseable(name) ==
    \/ ~Contains(FinalSegment(name), At)
    \/ ~AllDigits(AfterLastAt(FinalSegment(name)))
    \/ OutOfRange(name)

\* C11: a name whose final segment has no "@", or whose text after the last
\* "@" does not parse as an unsigned integer (empty, not digits, or out of
\* range), yields generation 0; a historic entry of such a name never shows
\* in the history FileHistory returns nor moves the counter New recovers.
C11_UnparseableIsZero ==
    Unparseable(last.a)
    => /\ last.op = "getGenerationFromFileName" => last.out = 0
       /\ last.op = "New" => gen = StartGeneration
       /\ last.op = "FileHistory" => last.out = <<>>

\* C11, but for the names that spell a number out of range.
C11_UnparseableInRangeIsZero ==
    (Unparseable(last.a) /\ ~OutOfRange(last.a))
    => /\ last.op = "getGenerationFromFileName" => last.out = 0
       /\ last.op = "New" => gen = StartGeneration
       /\ last.op = "FileHistory" => last.out = <<>>

\* A name that spells a number out of range yields the largest unsigned
\* integer, in the scan, in the counter and in the history.
C11_OutOfRangeIsMax ==
    OutOfRange(last.a)
    => /\ last.op = "getGenerationFromFileName" => last.out = MaxUint
       /\ last.op = "New" => gen = MaxUint
       /\ last.op = "FileHistory" => last.out = <<MaxUint>>


---------------------------------------------------------------------------
(* Two stores opened on the same root.  New may be called on a root that   *)
(* another Store value is open on; each value has its own counter.  Here   *)
(* gen is the pair of the two counters, and last is the call that returned *)
(* last, with the store that made it.                                     *)

\* The paths the two stores work on.
SharedPaths == {File, DirFile}

Handles == {1, 2}

\* The record of a call made through store h.
SharedRecord(h, call, r) ==
    [op |-> call.op, a |-> call.a, b |-> call.b, data |-> call.data, n |-> h,
     history |-> FALSE, recursive |-> FALSE,
     err |-> r.err, out |-> r.out, fs |-> fs, gen |-> gen[h]]

\* Store h makes a call; the disk is shared, the counter is its own.
SharedApply(h, call, r) ==
    /\ Len(issued \o r.issued) <= MaxIssue
    /\ fs' = r.fs
    /\ gen' = [gen EXCEPT ![h] = r.gen]
    /\ issued' = issued \o r.issued
    /\ last' = SharedRecord(h, call, r)

InitShared ==
    \E disk \in InitialDisks : \E s1 \in New(disk) : \E s2 \in New(s1.fs) :
        /\ s1.err = "ok" /\ s2.err = "ok"
        /\ fs = s2.fs
        /\ gen = <<s1.gen, s2.gen>>
        /\ issued = <<>>
        /\ last = [op |-> "New", a |-> <<>>, b |-> <<>>, data |-> <<>>, n |-> 2,
                   history |-> FALSE, recursive |-> FALSE,
                   err |-> "ok", out |-> None, fs |-> s1.fs, gen |-> 0]

SharedWrite ==
    \E h \in Handles, path \in SharedPaths, data \in Contents :
        SharedApply(h, Call("Write", path, <<>>, data, 0, FALSE, FALSE), Write(fs, gen[h], path, data))

SharedCopy ==
    \E h \in Handles, from \in SharedPaths, to \in SharedPaths :
        SharedApply(h, Call("Copy", from, to, <<>>, 0, FALSE, FALSE), Copy(fs, gen[h], from, to))

SharedMove ==
    \E h \in Handles, from \in SharedPaths, to \in SharedPaths :
        SharedApply(h, Call("Move", from, to, <<>>, 0, FALSE, FALSE), Move(fs, gen[h], from, to))

SharedRemove ==
    \E h \in Handles, path \in SharedPaths :
        SharedApply(h, Call("Remove", path, <<>>, <<>>, 0, FALSE, FALSE), Remove(fs, gen[h], path))

NextShared ==
    \/ SharedWrite
    \/ SharedCopy
    \/ SharedMove
    \/ SharedRemove

SpecShared == InitShared /\ [][NextShared]_vars

\* captureHistory(path) on disk f with counter g takes a generation whose
\* entry <path>@<generation> is on the disk already.
CaptureMeetsEntry(f, g, path) ==
    /\ captureHistory(f, g, path).issued # <<>>
    /\ historyPath(path, captureHistory(f, g, path).issued[1]) \in DOMAIN f

\* The path that the first capture of the call is of: the destination of a
\* Copy or a Move, else the path.
CapturedFirst == IF last.op \in {"Copy", "Move"} THEN last.b ELSE last.a

\* The trees outside the history tree are the same on both disks.
SameCurrentTree(f, g) ==
    {loc \in DOMAIN f : ~IsUnder(loc, <<HistoryName>>)} = {loc \in DOMAIN g : ~IsUnder(loc, <<HistoryName>>)}
    /\ \A loc \in DOMAIN f : ~IsUnder(loc, <<HistoryName>>) => f[loc] = g[loc]

\* C12: when the capture of a Write, Copy, Move or Remove would create a
\* historic entry whose name <path>@<generation> exists already, the entry
\* is left as it is and the call returns an error without its mutation.
C12_ExistingEntryFailsTheCall ==
    (last.op \in {"Write", "Copy", "Move", "Remove"}
     /\ CaptureMeetsEntry(last.fs, last.gen, CapturedFirst))
    => /\ fs[historyPath(CapturedFirst, AddUint(last.gen))]
            = last.fs[historyPath(CapturedFirst, AddUint(last.gen))]
       /\ last.err # "ok"
       /\ SameCurrentTree(last.fs, fs)

\* What the code does in that case: the entry is left as it is, and no other
\* entry is made in its place.
C12_ExistingEntryIsKept ==
    (last.op \in {"Write", "Copy", "Move", "Remove"}
     /\ CaptureMeetsEntry(last.fs, last.gen, CapturedFirst))
    => /\ historyPath(CapturedFirst, AddUint(last.gen)) \in DOMAIN fs
       /\ fs[historyPath(CapturedFirst, AddUint(last.gen))]
            = last.fs[historyPath(CapturedFirst, AddUint(last.gen))]
       /\ HistoricEntries(fs, CapturedFirst) = HistoricEntries(last.fs, CapturedFirst)

\* A write that met an existing entry, succeeded, and replaced a content
\* that no historic entry holds.
C12_LostContent ==
    /\ last.op = "Write" /\ last.err = "ok"
    /\ CaptureMeetsEntry(last.fs, last.gen, last.a)
    /\ Current(fs, last.a) # Current(last.fs, last.a)
    /\ \A e \in HistoricEntries(fs, last.a) : fs[e] # Current(last.fs, last.a)


---------------------------------------------------------------------------
(* Claims on the history tree and on the listings.                         *)

\* The historic entries of a disk: the regular files of its history tree.
EntriesOf(f) == {loc \in DOMAIN f : IsUnder(loc, <<HistoryName>>) /\ ~f[loc].dir}

\* C13: historic entries are immutable.  Whatever public operation or
\* reopening has just run, every historic entry the disk had before it is
\* still there under its name with its content; entries are only added.
C13_EntriesImmutable ==
    \A loc \in EntriesOf(last.fs) : loc \in DOMAIN fs /\ fs[loc] = last.fs[loc]

\* A call has added an entry to a history that had entries.
C13_Witness ==
    /\ last.op \in {"Write", "Copy", "Move", "Remove"}
    /\ EntriesOf(last.fs) # {}
    /\ EntriesOf(fs) \ EntriesOf(last.fs) # {}
    /\ \A loc \in EntriesOf(last.fs) : loc \in DOMAIN fs /\ fs[loc] = last.fs[loc]

\* A store has been opened again on a history with entries.
C13_WitnessReopened ==
    /\ last.op = "New" /\ issued # <<>>
    /\ EntriesOf(last.fs) # {}
    /\ EntriesOf(fs) = EntriesOf(last.fs)


\* The place in the store that a listed path names.
ListedPlace(p) == realPath(p, FALSE)

\* C14: List(path, history=false, recursive=true) returns only regular
\* files of the current tree: for every path argument, no returned path is
\* the history directory, an entry under it, or a directory.
C14_ListsOnlyCurrentFiles ==
    (last.op = "List" /\ ~last.history /\ last.recursive /\ last.err = "ok")
    => \A i \in 1..Len(last.out) :
           /\ ListedPlace(last.out[i]) \in DOMAIN fs
           /\ ~fs[ListedPlace(last.out[i])].dir
           /\ ~IsUnder(ListedPlace(last.out[i]), <<HistoryName>>)

\* C14, for the path arguments that do not lead into the history directory.
C14_ListsOnlyCurrentFilesOutsideHistory ==
    (last.op = "List" /\ ~last.history /\ last.recursive /\ last.err = "ok"
     /\ ~IsUnder(realPath(last.a, FALSE), <<HistoryName>>))
    => /\ \A i \in 1..Len(last.out) :
              /\ ListedPlace(last.out[i]) \in DOMAIN fs
              /\ ~fs[ListedPlace(last.out[i])].dir
              /\ ~IsUnder(ListedPlace(last.out[i]), <<HistoryName>>)
       /\ \A loc \in DOMAIN fs :
              (~fs[loc].dir /\ ~IsUnder(loc, <<HistoryName>>) /\ IsUnder(loc, realPath(last.a, FALSE)))
              => \E i \in 1..Len(last.out) : ListedPlace(last.out[i]) = loc

\* A listing of the root that has returned a file of a subdirectory while
\* the history directory held entries.
C14_ListedBesideHistory ==
    /\ last.op = "List" /\ ~last.history /\ last.recursive /\ last.err = "ok"
    /\ last.a = <<>> /\ EntriesOf(fs) # {}
    /\ \E i \in 1..Len(last.out) : Len(ListedPlace(last.out[i])) > 1


\* The logical path of a historic entry: its place below the history
\* directory, without the "@" of its name and what follows it.
LogicalPath(e) == JoinSlash(Tail(Front(e)) \o <<StripGeneration(Last(e))>>)

ListedEntries == {realPath(last.out[i], TRUE) : i \in 1..Len(last.out)}

Swept == cleanDirectoryStructure(last.fs, Root)

\* The root and, if the call found it, the history directory are
\* directories of disk f.
KeepsRootAndHistory(f) ==
    /\ Root \in DOMAIN f /\ f[Root].dir
    /\ <<HistoryName>> \in DOMAIN last.fs
       => <<HistoryName>> \in DOMAIN f /\ f[<<HistoryName>>].dir

\* C16: no hygiene operation deletes the store root or the history
\* directory.  Within New, neither the sweep of the empty directories nor
\* the renaming of the illegal names removes a root or a root/.history that
\* was there, even an empty one; nor does the pruning of Move and Remove.
C16_RootAndHistoryNeverRemoved ==
    /\ last.op = "New"
       => /\ KeepsRootAndHistory(Swept)
          /\ \A fixed \in fixIllegalFilenames(Swept, Root) : KeepsRootAndHistory(fixed)
    /\ last.op \in {"Move", "Remove"} => KeepsRootAndHistory(fs)

\* C16, for a history directory that holds a file; and whatever it was given,
\* New returns with the history directory in place.
C16_HistoryWithEntriesNeverRemoved ==
    /\ (last.op = "New" /\ EntriesOf(last.fs) # {})
       => /\ KeepsRootAndHistory(Swept)
          /\ \A fixed \in fixIllegalFilenames(Swept, Root) : KeepsRootAndHistory(fixed)
    /\ last.op = "New" => <<HistoryName>> \in DOMAIN fs /\ fs[<<HistoryName>>].dir
    /\ last.op \in {"Move", "Remove"} => KeepsRootAndHistory(fs)

\* New has removed the history directory it found and made it again.
C16_HistoryRemovedAndRemade ==
    /\ last.op = "New"
    /\ <<HistoryName>> \in DOMAIN last.fs
    /\ <<HistoryName>> \notin DOMAIN Swept
    /\ <<HistoryName>> \in DOMAIN fs


---------------------------------------------------------------------------
(* Two goroutines in one store.  Each makes one call, of Write or Remove,  *)
(* on a path of its own; a step is one call into package os (or the one    *)
(* atomic add), and the steps of the two calls interleave freely.          *)
(* os.MkdirAll, os.ReadDir and compareFiles are taken as one step each.    *)
(* Here last holds the store as the calls found it (start), the two calls  *)
(* with their positions and locals (calls), and whether a step of one call *)
(* fell between two steps of the other (mixed).                            *)

File2 == File \o <<"2">>
DirFile2 == DirName \o <<Slash>> \o File2

\* The tree of the tests with its second file.
TwoFilesDisk == TestDisk @@ (<<DirName, File2>> :> FileNode(World))

ConcurrentDisks == {TestDisk, TwoFilesDisk}

Procs == {1, 2}

Other(p) == 3 - p

\* A call that has not taken a step.
Begun(op, path, data) ==
    [op |-> op, a |-> path, data |-> data, pc |-> "check", err |-> "ok",
     newest |-> 0, next |-> 0, dir |-> Root, held |-> <<>>]

\* The calls of the first goroutine, on "dir/file", and of the second, on
\* "dir/file2" or "file".
FirstCalls == {Begun("Write", DirFile, World), Begun("Remove", DirFile, <<>>)}

SecondCalls ==
    {Begun("Write", path, World) : path \in {DirFile2, File}}
    \cup {Begun("Remove", path, <<>>) : path \in {DirFile2, File}}

InitConcurrent ==
    \E disk \in ConcurrentDisks : \E s \in New(disk) : \E c1 \in FirstCalls : \E c2 \in SecondCalls :
        /\ s.err = "ok"
        /\ fs = s.fs
        /\ gen = s.gen
        /\ issued = <<>>
        /\ last = [start |-> [fs |-> s.fs, gen |-> s.gen], calls |-> <<c1, c2>>, mixed |-> FALSE]

\* The other call is between its first step and its return.
Busy(q) == last.calls[q].pc \notin {"check", "done"}

\* Goroutine p moves on: its call record becomes c.
Goes(p, c) ==
    last' = [last EXCEPT !.calls[p] = c, !.mixed = @ \/ Busy(Other(p))]

At_(p, pc) == last.calls[p].pc = pc

\* Where a call goes on once captureHistory has returned nil.
AfterCapture(c) == IF c.op = "Write" THEN "mkdir" ELSE "remove"

\* captureHistory: checkPath.
StepCheck(p) ==
    /\ At_(p, "check")
    /\ Goes(p, IF checkPath(last.calls[p].a)
               THEN [last.calls[p] EXCEPT !.pc = "done", !.err = "ErrIllegalPath"]
               ELSE [last.calls[p] EXCEPT !.pc = "stat"])
    /\ UNCHANGED <<fs, gen, issued>>

\* captureHistory: os.Stat of the current file.
StepStat(p) ==
    /\ At_(p, "stat")
    /\ Goes(p, IF Errno(fs, realPath(last.calls[p].a, FALSE)) = "ENOENT"
               THEN [last.calls[p] EXCEPT !.pc = AfterCapture(last.calls[p])]
               ELSE [last.calls[p] EXCEPT !.pc = "history"])
    /\ UNCHANGED <<fs, gen, issued>>

\* The call of p after FileHistory has returned h.
WithHistory(c, h) ==
    IF h.err # "ok" THEN [c EXCEPT !.pc = "done", !.err = h.err]
    ELSE IF h.history = <<>> THEN [c EXCEPT !.pc = "generation"]
    ELSE [c EXCEPT !.pc = "compare", !.newest = h.history[1]]

\* captureHistory: FileHistory.
StepHistory(p) ==
    /\ At_(p, "history")
    /\ Goes(p, WithHistory(last.calls[p], FileHistory(fs, last.calls[p].a)))
    /\ UNCHANGED <<fs, gen, issued>>

\* The call after a compareFiles whose verdict is not looked at: the capture
\* is made whenever the comparison has not failed.
WithCompared_Always(c, cmp) ==
    IF cmp.err # "ok" THEN [c EXCEPT !.pc = "done", !.err = cmp.err]
    ELSE [c EXCEPT !.pc = "generation"]

\* The call of p after compareFiles has returned cmp.
WithCompared(c, cmp) ==
    IF cmp.err # "ok" THEN [c EXCEPT !.pc = "done", !.err = cmp.err]
    ELSE IF cmp.eq THEN [c EXCEPT !.pc = AfterCapture(c)]
    ELSE [c EXCEPT !.pc = "generation"]

\* captureHistory: compareFiles of the current file and its newest entry.
StepCompare(p) ==
    /\ At_(p, "compare")
    /\ Goes(p, WithCompared(last.calls[p],
                            compareFiles(fs, realPath(last.calls[p].a, FALSE),
                                         historyPath(last.calls[p].a, last.calls[p].newest))))
    /\ UNCHANGED <<fs, gen, issued>>

\* captureHistory with S.GetGeneration(false): the counter is read and not
\* raised.
StepGeneration_NoIncrement(p) ==
    /\ At_(p, "generation")
    /\ gen' = gen
    /\ issued' = Append(issued, gen)
    /\ Goes(p, [last.calls[p] EXCEPT !.pc = "copyOpen", !.next = gen])
    /\ UNCHANGED fs

\* captureHistory: S.GetGeneration(true).
StepGeneration(p) ==
    /\ At_(p, "generation")
    /\ gen' = AddUint(gen)
    /\ issued' = Append(issued, AddUint(gen))
    /\ Goes(p, [last.calls[p] EXCEPT !.pc = "copyOpen", !.next = AddUint(gen)])
    /\ UNCHANGED fs

\* copy: os.Open of the current file.  An error of copy ends the capture
\* and is dropped.
StepCopyOpen(p) ==
    /\ At_(p, "copyOpen")
    /\ Goes(p, IF realPath(last.calls[p].a, FALSE) \notin DOMAIN fs
               THEN [last.calls[p] EXCEPT !.pc = AfterCapture(last.calls[p])]
               ELSE [last.calls[p] EXCEPT !.pc = "copyMkdir",
                                          !.held = fs[realPath(last.calls[p].a, FALSE)]])
    /\ UNCHANGED <<fs, gen, issued>>

\* copy: os.MkdirAll of the directory of the entry.
StepCopyMkdir(p) ==
    /\ At_(p, "copyMkdir")
    /\ fs' = MkdirAll(fs, Dir(historyPath(last.calls[p].a, last.calls[p].next))).fs
    /\ Goes(p, IF MkdirAll(fs, Dir(historyPath(last.calls[p].a, last.calls[p].next))).err # "ok"
               THEN [last.calls[p] EXCEPT !.pc = AfterCapture(last.calls[p])]
               ELSE [last.calls[p] EXCEPT !.pc = "copyCreate"])
    /\ UNCHANGED <<gen, issued>>

\* The entry of the capture of call c.
EntryOf(c) == historyPath(c.a, c.next)

\* The file of call c.
FileOf(c) == realPath(c.a, FALSE)

\* copy: os.OpenFile of the entry with O_CREATE|O_WRONLY|O_EXCL.
StepCopyCreate(p) ==
    /\ At_(p, "copyCreate")
    /\ IF EntryOf(last.calls[p]) \in DOMAIN fs \/ Dir(EntryOf(last.calls[p])) \notin DOMAIN fs
       THEN /\ fs' = fs
            /\ Goes(p, [last.calls[p] EXCEPT !.pc = AfterCapture(last.calls[p])])
       ELSE /\ fs' = [loc \in DOMAIN fs \cup {EntryOf(last.calls[p])} |->
                         IF loc = EntryOf(last.calls[p]) THEN FileNode(<<>>) ELSE fs[loc]]
            /\ Goes(p, [last.calls[p] EXCEPT !.pc = "copyData"])
    /\ UNCHANGED <<gen, issued>>

\* What io.Copy reads from the file call c has opened: what the file holds
\* now, as another call may have truncated or written it since; what it held
\* when it was opened, if it has been removed since.
ReadOf(c) ==
    IF FileOf(c) \in DOMAIN fs /\ ~fs[FileOf(c)].dir THEN fs[FileOf(c)].data ELSE c.held.data

\* copy: io.Copy from the opened file into the opened entry.
StepCopyData(p) ==
    /\ At_(p, "copyData")
    /\ fs' = IF last.calls[p].held.dir \/ EntryOf(last.calls[p]) \notin DOMAIN fs THEN fs
             ELSE [fs EXCEPT ![EntryOf(last.calls[p])] = FileNode(ReadOf(last.calls[p]))]
    /\ Goes(p, [last.calls[p] EXCEPT !.pc = AfterCapture(last.calls[p])])
    /\ UNCHANGED <<gen, issued>>

\* Write: os.MkdirAll of the directory of the file.
StepMkdir(p) ==
    /\ At_(p, "mkdir")
    /\ fs' = MkdirAll(fs, Dir(realPath(last.calls[p].a, FALSE))).fs
    /\ Goes(p, IF MkdirAll(fs, Dir(realPath(last.calls[p].a, FALSE))).err # "ok"
               THEN [last.calls[p] EXCEPT !.pc = "done",
                        !.err = MkdirAll(fs, Dir(realPath(last.calls[p].a, FALSE))).err]
               ELSE [last.calls[p] EXCEPT !.pc = "open"])
    /\ UNCHANGED <<gen, issued>>

\* Write: os.OpenFile of the file with O_CREATE|O_RDWR|O_TRUNC.
StepOpen(p) ==
    /\ At_(p, "open")
    /\ IF Dir(FileOf(last.calls[p])) \notin DOMAIN fs
       THEN /\ fs' = fs
            /\ Goes(p, [last.calls[p] EXCEPT !.pc = "done",
                           !.err = Errno(fs, Dir(FileOf(last.calls[p])))])
       ELSE IF ~fs[Dir(FileOf(last.calls[p]))].dir
       THEN /\ fs' = fs
            /\ Goes(p, [last.calls[p] EXCEPT !.pc = "done", !.err = "ENOTDIR"])
       ELSE IF FileOf(last.calls[p]) \in DOMAIN fs /\ fs[FileOf(last.calls[p])].dir
       THEN /\ fs' = fs
            /\ Goes(p, [last.calls[p] EXCEPT !.pc = "done", !.err = "EISDIR"])
       ELSE /\ fs' = [loc \in DOMAIN fs \cup {FileOf(last.calls[p])} |->
                         IF loc = FileOf(last.calls[p]) THEN FileNode(<<>>) ELSE fs[loc]]
            /\ Goes(p, [last.calls[p] EXCEPT !.pc = "write"])
    /\ UNCHANGED <<gen, issued>>

\* The caller of Write writes its data to the file and closes it.
StepWrite(p) ==
    /\ At_(p, "write")
    /\ fs' = IF FileOf(last.calls[p]) \notin DOMAIN fs THEN fs
             ELSE [fs EXCEPT ![FileOf(last.calls[p])] = FileNode(last.calls[p].data)]
    /\ Goes(p, [last.calls[p] EXCEPT !.pc = "done"])
    /\ UNCHANGED <<gen, issued>>

\* Remove: os.Remove of the file.
StepRemove(p) ==
    /\ At_(p, "remove")
    /\ fs' = OsRemove(fs, FileOf(last.calls[p])).fs
    /\ Goes(p, IF OsRemove(fs, FileOf(last.calls[p])).err # "ok"
               THEN [last.calls[p] EXCEPT !.pc = "done",
                        !.err = OsRemove(fs, FileOf(last.calls[p])).err]
               ELSE [last.calls[p] EXCEPT !.pc = "cleanStat", !.dir = Dir(FileOf(last.calls[p]))])
    /\ UNCHANGED <<gen, issued>>

\* cleanDirectory: os.Stat of the directory.
StepCleanStat(p) ==
    /\ At_(p, "cleanStat")
    /\ Goes(p, IF last.calls[p].dir \notin DOMAIN fs
               THEN [last.calls[p] EXCEPT !.pc = "done", !.err = Errno(fs, last.calls[p].dir)]
               ELSE IF ~fs[last.calls[p].dir].dir THEN [last.calls[p] EXCEPT !.pc = "done"]
               ELSE [last.calls[p] EXCEPT !.pc = "cleanOpen"])
    /\ UNCHANGED <<fs, gen, issued>>

\* cleanDirectory: os.Open of the directory.
StepCleanOpen(p) ==
    /\ At_(p, "cleanOpen")
    /\ Goes(p, IF last.calls[p].dir \notin DOMAIN fs
               THEN [last.calls[p] EXCEPT !.pc = "done", !.err = Errno(fs, last.calls[p].dir)]
               ELSE [last.calls[p] EXCEPT !.pc = "cleanRead"])
    /\ UNCHANGED <<fs, gen, issued>>

\* cleanDirectory: f.Readdirnames(1).  A directory removed since it was
\* opened reads as empty.
StepCleanRead(p) ==
    /\ At_(p, "cleanRead")
    /\ Goes(p, IF last.calls[p].dir \in DOMAIN fs /\ Children(fs, last.calls[p].dir) # {}
               THEN [last.calls[p] EXCEPT !.pc = "done"]
               ELSE [last.calls[p] EXCEPT !.pc = "cleanRemove"])
    /\ UNCHANGED <<fs, gen, issued>>

\* cleanDirectory: os.Remove of the directory (its error is not looked at)
\* and the call of cleanDirectory on the parent.
StepCleanRemove(p) ==
    /\ At_(p, "cleanRemove")
    /\ fs' = OsRemove(fs, last.calls[p].dir).fs
    /\ Goes(p, IF last.calls[p].dir = Root THEN [last.calls[p] EXCEPT !.pc = "done"]
               ELSE [last.calls[p] EXCEPT !.pc = "cleanStat", !.dir = Dir(last.calls[p].dir)])
    /\ UNCHANGED <<gen, issued>>

NextConcurrent ==
    \/ \E p \in Procs : StepCheck(p)
    \/ \E p \in Procs : StepStat(p)
    \/ \E p \in Procs : StepHistory(p)
    \/ \E p \in Procs : StepCompare(p)
    \/ \E p \in Procs : StepGeneration(p)
    \/ \E p \in Procs : StepCopyOpen(p)
    \/ \E p \in Procs : StepCopyMkdir(p)
    \/ \E p \in Procs : StepCopyCreate(p)
    \/ \E p \in Procs : StepCopyData(p)
    \/ \E p \in Procs : StepMkdir(p)
    \/ \E p \in Procs : StepOpen(p)
    \/ \E p \in Procs : StepWrite(p)
    \/ \E p \in Procs : StepRemove(p)
    \/ \E p \in Procs : StepCleanStat(p)
    \/ \E p \in Procs : StepCleanOpen(p)
    \/ \E p \in Procs : StepCleanRead(p)
    \/ \E p \in Procs : StepCleanRemove(p)

SpecConcurrent == InitConcurrent /\ [][NextConcurrent]_vars

\* A call run in one piece on disk f with counter g.
Run(c, f, g) == IF c.op = "Write" THEN Write(f, g, c.a, c.data) ELSE Remove(f, g, c.a)

\* The two calls run one after the other, call p first.
RunFirst(p) == Run(last.calls[p], last.start.fs, last.start.gen)

RunSecond(p) == Run(last.calls[Other(p)], RunFirst(p).fs, RunFirst(p).gen)

\* The current file and the historic entries of a path on a disk.
OwnState(f, path) ==
    [current |-> IF realPath(path, FALSE) \in DOMAIN f THEN f[realPath(path, FALSE)] ELSE None,
     entries |-> [e \in HistoricEntries(f, path) |-> f[e]]]

\* The two calls have returned what they return, and left of their paths what
\* they leave, when call p runs first and the other call after it.
AsInOrder(p) ==
    /\ last.calls[p].err = RunFirst(p).err
    /\ last.calls[Other(p)].err = RunSecond(p).err
    /\ \A q \in Procs : OwnState(fs, last.calls[q].a) = OwnState(RunSecond(p).fs, last.calls[q].a)

BothDone == \A p \in Procs : last.calls[p].pc = "done"

\* C17: concurrent Write and Remove calls on distinct legal paths are safe:
\* in every interleaving of their steps each call returns the result, and
\* leaves the current file and the history of its path, as in one of the two
\* sequential executions of the two calls.
C17_AsSomeSequentialOrder ==
    BothDone => \E p \in Procs : AsInOrder(p)

\* C17, for the executions in which no step of one call falls between two
\* steps of the other.
C17_UnmixedAsSequentialOrder ==
    (BothDone /\ ~last.mixed) => \E p \in Procs : AsInOrder(p)

\* A Write has failed because the directory it made was removed by the
\* pruning of a Remove before the file was opened.
C17_WriteLostItsDirectory ==
    /\ BothDone /\ last.mixed
    /\ \E p \in Procs :
           /\ last.calls[p].op = "Write" /\ last.calls[p].err = "ENOENT"
           /\ last.calls[Other(p)].op = "Remove" /\ last.calls[Other(p)].err = "ok"


---------------------------------------------------------------------------
(* Goroutines that call GetGeneration on one store.  GetGeneration(true)   *)
(* is one atomic.AddUint64.  GetGeneration(false) reads S.Generation with  *)
(* a plain load while others may add to it: a build for a 64-bit machine   *)
(* loads the word in one step, a build for a 32-bit machine loads its two  *)
(* halves one after the other, in either order.  Here last holds the       *)
(* counter at the start and the calls; a call records the values the       *)
(* counter has had since the call began (during) and whether an add fell   *)
(* between its two loads (hit).                                            *)

\* The goroutines that call GetGeneration at the same time.
MaxCallers == 3

Callers == 1..MaxCallers

\* The weight of the high half of the counter: half its width, scaled as
\* MaxUint is.
HalfWord == 16

\* Counters to start from: that of a new store, one below a carry into the
\* high half, and one below the largest.
StartCounters == {StartGeneration, HalfWord - 1, MaxUint - 1}

InitCounter ==
    \E g \in StartCounters : \E increments \in [Callers -> BOOLEAN] :
        /\ fs = EmptyDisk
        /\ gen = g
        /\ issued = <<>>
        /\ last = [start |-> g,
                   calls |-> [p \in Callers |->
                                [increment |-> increments[p], pc |-> "call", out |-> 0,
                                 low |-> 0, high |-> 0, during |-> {g}, hit |-> FALSE]]]

\* The calls as the other goroutines see an add that makes the counter g.
Added(calls, g) ==
    [q \in Callers |->
        IF calls[q].pc = "done" THEN calls[q]
        ELSE [calls[q] EXCEPT !.during = @ \cup {g},
                              !.hit = @ \/ calls[q].pc \in {"lowLoaded", "highLoaded"}]]

\* GetGeneration(true): atomic.AddUint64(&S.Generation, 1).
AtomicAdd(p) ==
    /\ last.calls[p].pc = "call" /\ last.calls[p].increment
    /\ gen' = AddUint(gen)
    /\ issued' = Append(issued, AddUint(gen))
    /\ last' = [last EXCEPT
                  !.calls = [Added(last.calls, AddUint(gen)) EXCEPT
                               ![p] = [last.calls[p] EXCEPT !.pc = "done", !.out = AddUint(gen)]]]
    /\ UNCHANGED fs

\* GetGeneration(false): S.Generation loaded in one step.
LoadWord(p) ==
    /\ last.calls[p].pc = "call" /\ ~last.calls[p].increment
    /\ last' = [last EXCEPT !.calls[p] = [last.calls[p] EXCEPT !.pc = "done", !.out = gen]]
    /\ UNCHANGED <<fs, gen, issued>>

\* GetGeneration(false): the low half of S.Generation is loaded.
LoadLow(p) ==
    /\ ~last.calls[p].increment
    /\ last.calls[p].pc \in {"call", "highLoaded"}
    /\ last' = [last EXCEPT !.calls[p] =
                  IF last.calls[p].pc = "call"
                  THEN [last.calls[p] EXCEPT !.pc = "lowLoaded", !.low = gen % HalfWord]
                  ELSE [last.calls[p] EXCEPT
                          !.pc = "done",
                          !.out = (last.calls[p].high * HalfWord) + (gen % HalfWord)]]
    /\ UNCHANGED <<fs, gen, issued>>

\* GetGeneration(false): the high half of S.Generation is loaded.
LoadHigh(p) ==
    /\ ~last.calls[p].increment
    /\ last.calls[p].pc \in {"call", "lowLoaded"}
    /\ last' = [last EXCEPT !.calls[p] =
                  IF last.calls[p].pc = "call"
                  THEN [last.calls[p] EXCEPT !.pc = "highLoaded", !.high = gen \div HalfWord]
                  ELSE [last.calls[p] EXCEPT
                          !.pc = "done",
                          !.out = ((gen \div HalfWord) * HalfWord) + last.calls[p].low]]
    /\ UNCHANGED <<fs, gen, issued>>

NextCounter ==
    \/ \E p \in Callers : AtomicAdd(p)
    \/ \E p \in Callers : LoadWord(p)
    \/ \E p \in Callers : LoadLow(p)
    \/ \E p \in Callers : LoadHigh(p)

SpecCounter == InitCounter /\ [][NextCounter]_vars

\* The calls that have returned, of GetGeneration(true) and of
\* GetGeneration(false).
Incremented == {p \in Callers : last.calls[p].increment /\ last.calls[p].pc = "done"}

ReadOnly == {p \in Callers : ~last.calls[p].increment /\ last.calls[p].pc = "done"}

\* The concurrent calls of GetGeneration(true) that have returned have
\* returned distinct values and have raised the counter by their number.
NoLostUpdate ==
    /\ \A p \in Incremented : \A q \in Incremented : p # q => last.calls[p].out # last.calls[q].out
    /\ gen = (last.start + Cardinality(Incremented)) % (MaxUint + 1)

\* C18: GetGeneration(true) is an atomic fetch-and-increment: n concurrent
\* calls return n distinct values and raise the counter by n.
\* GetGeneration(false) returns the current counter, a value the counter
\* has had during the call, and leaves the counter as it is.
C18_AtomicCounter ==
    /\ NoLostUpdate
    /\ \A p \in ReadOnly : last.calls[p].out \in last.calls[p].during

\* C18 as the code has it: the same, but GetGeneration(false) returns a
\* value of the counter only if no GetGeneration(true) falls between its
\* loads.
C18_AtomicAddPlainLoad ==
    /\ NoLostUpdate
    /\ \A p \in ReadOnly : ~last.calls[p].hit => last.calls[p].out \in last.calls[p].during

\* Three calls of GetGeneration(true) have returned.
C18_AllIncremented == Cardinality(Incremented) = MaxCallers

\* GetGeneration(false) has returned a value that the counter never had.
C18_TornRead ==
    \E p \in ReadOnly : last.calls[p].out \notin last.start..(last.start + MaxCallers)


---------------------------------------------------------------------------
(* Claims on captureHistory.                                               *)

\* The first capture of the call that has just returned, made of a legal
\* path that had a current file and no historic entry.
FirstCaptureOfFile ==
    /\ last.op \in {"Write", "Copy", "Move", "Remove"}
    /\ Legal(CapturedFirst)
    /\ HasCurrentFile(last.fs, CapturedFirst)
    /\ HistoricEntries(last.fs, CapturedFirst) = {}

\* What the capture did to the disk the call found.
Captured == captureHistory(last.fs, last.gen, CapturedFirst)

\* The capture has succeeded and has made the first entry of the path, with
\* the content of the current file; a Write or a Remove has succeeded.
FirstEntryMade ==
    /\ Captured.err = "ok"
    /\ HistoricEntries(Captured.fs, CapturedFirst) = {historyPath(CapturedFirst, AddUint(last.gen))}
    /\ Captured.fs[historyPath(CapturedFirst, AddUint(last.gen))] = Current(last.fs, CapturedFirst)
    /\ last.op \in {"Write", "Remove"} => last.err = "ok"

\* C19: captureHistory(p), for a legal p with a current file and no historic
\* entry yet, succeeds and makes the first entry of p, even when the
\* directory that mirrors p's parent under the history root does not exist;
\* so Write and Remove do not fail on such a file.
C19_FirstCaptureSucceeds == FirstCaptureOfFile => FirstEntryMade

\* C19, when the directory that mirrors p's parent exists under the history
\* root.
C19_FirstCaptureSucceedsInMirroredDirectory ==
    (FirstCaptureOfFile /\ Dir(realPath(CapturedFirst, TRUE)) \in DOMAIN last.fs)
    => FirstEntryMade

\* When that directory does not exist, the capture fails with not-found and
\* leaves the disk and the counter as they were.
C19_FirstCaptureFailsWithoutDirectory ==
    (FirstCaptureOfFile /\ Dir(realPath(CapturedFirst, TRUE)) \notin DOMAIN last.fs)
    => /\ Captured.err = "ENOENT"
       /\ last.err = "ENOENT"
       /\ Untouched

\* A Write to a file of a subdirectory that has failed for want of the
\* mirror of the subdirectory.
C19_WriteFailed ==
    /\ FirstCaptureOfFile /\ last.op = "Write" /\ last.a = DirFile
    /\ last.err = "ENOENT"


\* The historic entry of a path with the largest generation.
NewestEntry(f, path) ==
    CHOOSE e \in HistoricEntries(f, path) :
        \A d \in HistoricEntries(f, path) :
            getGenerationFromFileName(Last(e)) >= getGenerationFromFileName(Last(d))

\* The path has no current file, or its newest historic entry holds the
\* content of its current file.
NothingToCapture(f, path) ==
    \/ realPath(path, FALSE) \notin DOMAIN f
    \/ /\ HasCurrentFile(f, path)
       /\ HistoricEntries(f, path) # {}
       /\ f[NewestEntry(f, path)] = Current(f, path)

\* The capture has returned success and has left the disk and the counter
\* as they were.
CaptureWithoutEffect ==
    Captured.err = "ok" /\ Captured.fs = last.fs /\ Captured.gen = last.gen

\* C20: captureHistory(p), for a legal p, returns success without an effect
\* (no entry made, the counter unchanged) in exactly two cases: p has no
\* current file, or the newest historic entry of p holds the content of the
\* current file.
C20_NoEffectInExactlyTwoCases ==
    (last.op \in {"Write", "Copy", "Move", "Remove"} /\ Legal(CapturedFirst))
    => (CaptureWithoutEffect <=> NothingToCapture(last.fs, CapturedFirst))

\* C20, for the paths whose last element is spelled as in their cleaned form
\* and that do not lead through a regular file.
C20_NoEffectInExactlyTwoCasesOfCleanName ==
    (last.op \in {"Write", "Copy", "Move", "Remove"} /\ Legal(CapturedFirst)
     /\ Base(CapturedFirst) = Last(realPath(CapturedFirst, FALSE))
     /\ Errno(last.fs, realPath(CapturedFirst, FALSE)) # "ENOTDIR")
    => (CaptureWithoutEffect <=> NothingToCapture(last.fs, CapturedFirst))

\* A capture that has made a second entry of the content that the newest
\* entry holds.
C20_CapturedTwice ==
    /\ last.op \in {"Write", "Copy", "Move", "Remove"} /\ Legal(CapturedFirst)
    /\ HasCurrentFile(last.fs, CapturedFirst)
    /\ HistoricEntries(last.fs, CapturedFirst) # {}
    /\ last.fs[NewestEntry(last.fs, CapturedFirst)] = Current(last.fs, CapturedFirst)
    /\ Captured.err = "ok"
    /\ HistoricEntries(Captured.fs, CapturedFirst) # HistoricEntries(last.fs, CapturedFirst)


\* The capture is due: the path has a current file, and no historic entry or
\* a newest one that holds another content.
CaptureDue(f, path) ==
    /\ HasCurrentFile(f, path)
    /\ HistoricEntries(f, path) # {} => f[NewestEntry(f, path)] # Current(f, path)

\* The capture has raised the counter by one and has made one entry, of the
\* new generation, with the content of the current file, which it has left.
CapturedOnce ==
    /\ Captured.err = "ok"
    /\ Captured.gen = last.gen + 1
    /\ NewEntries(last.fs, Captured.fs, CapturedFirst) = {historyPath(CapturedFirst, last.gen + 1)}
    /\ Captured.fs[historyPath(CapturedFirst, last.gen + 1)] = Current(last.fs, CapturedFirst)
    /\ Current(Captured.fs, CapturedFirst) = Current(last.fs, CapturedFirst)

\* C21: when captureHistory(p) captures (p has a current file that differs
\* from its newest historic entry, or has none), the counter rises by exactly
\* 1 from n, exactly one entry p@(n+1) is made with the content of the
\* current file, and the current file is unchanged.
C21_CaptureMakesOneEntry ==
    (last.op \in {"Write", "Copy", "Move", "Remove"} /\ Legal(CapturedFirst)
     /\ CaptureDue(last.fs, CapturedFirst))
    => CapturedOnce

\* C21, when the directory that mirrors p's parent exists under the history
\* root.
C21_CaptureMakesOneEntryInMirroredDirectory ==
    (last.op \in {"Write", "Copy", "Move", "Remove"} /\ Legal(CapturedFirst)
     /\ CaptureDue(last.fs, CapturedFirst)
     /\ Dir(realPath(CapturedFirst, TRUE)) \in DOMAIN last.fs)
    => CapturedOnce

\* A capture that was due for a file with a history and was not made.
C21_DueCaptureNotMade ==
    /\ last.op \in {"Write", "Copy", "Move", "Remove"} /\ Legal(CapturedFirst)
    /\ CaptureDue(last.fs, CapturedFirst)
    /\ Captured.err # "ok"
    /\ Captured.gen = last.gen


---------------------------------------------------------------------------
(* Claims on Move and Remove.                                              *)

\* No directory from d up to, and without, the root is left empty on disk f.
Pruned(f, d) ==
    \A k \in 1..Len(d) : SubSeq(d, 1, k) \in DOMAIN f => Children(f, SubSeq(d, 1, k)) # {}

\* A Remove or a Move of a legal path that had a current file has succeeded.
FileTakenAway ==
    /\ last.op \in {"Remove", "Move"} /\ last.err = "ok"
    /\ Legal(last.a) /\ HasCurrentFile(last.fs, last.a)
    /\ last.op = "Move" => Legal(last.b)

\* C22: after a successful Remove(p) or Move(from, to) the directory that
\* held the removed or moved-away file (the source directory for Move), if
\* now empty, is deleted with each ancestor that becomes empty, up to the
\* store root or the first ancestor that is not empty.
C22_SourceDirectoryPruned ==
    FileTakenAway => Pruned(fs, Dir(realPath(last.a, FALSE)))

\* What the code does: Remove prunes the directory of the file, Move the
\* directory of the destination.
C22_RemovePrunesMovePrunesDestination ==
    /\ (FileTakenAway /\ last.op = "Remove") => Pruned(fs, Dir(realPath(last.a, FALSE)))
    /\ (FileTakenAway /\ last.op = "Move") => Pruned(fs, Dir(realPath(last.b, FALSE)))

\* A Move has left the directory of its source empty.
C22_SourceDirectoryStranded ==
    /\ FileTakenAway /\ last.op = "Move"
    /\ Dir(realPath(last.a, FALSE)) \in DOMAIN fs
    /\ Children(fs, Dir(realPath(last.a, FALSE))) = {}


\* Among the two goroutines: the Remove of p has returned after its
\* os.Remove has succeeded (the file it found is gone, and no other call is
\* of that path).
Deleted(p) ==
    /\ last.calls[p].op = "Remove" /\ last.calls[p].pc = "done"
    /\ HasCurrentFile(last.start.fs, last.calls[p].a)
    /\ FileOf(last.calls[p]) \notin DOMAIN fs

\* C23: the pruning of directories in Move and Remove is best-effort:
\* whenever the rename or the delete has succeeded the call returns no error,
\* even if the cleanDirectory that follows fails.
C23_PruningErrorNotReturned ==
    \A p \in Procs : Deleted(p) => last.calls[p].err = "ok"

\* What the code does: the call returns the error of cleanDirectory, which
\* is nil when no step of another call falls between the steps of this one.
C23_PruningErrorReturned ==
    \A p \in Procs :
        Deleted(p) => /\ last.calls[p].err \in {"ok", "ENOENT"}
                      /\ ~last.mixed => last.calls[p].err = "ok"

\* A Remove has deleted its file and has returned the not-found of
\* cleanDirectory, whose directory the pruning of another Remove had taken.
C23_RemoveFailedAfterDelete ==
    \E p \in Procs :
        /\ Deleted(p) /\ last.calls[p].err = "ENOENT"
        /\ last.calls[Other(p)].op = "Remove" /\ last.calls[Other(p)].err = "ok"
        /\ last.calls[p].dir \notin DOMAIN fs


MoveOfTwoDue ==
    /\ last.op = "Move" /\ Legal(last.a) /\ Legal(last.b)
    /\ CaptureDue(last.fs, last.a) /\ CaptureDue(last.fs, last.b)

\* The destination has been captured as generation n+1 and the source as
\* n+2, the move has succeeded, and the newest generation of the history of
\* the destination is n+1.
DestinationCapturedFirst ==
    /\ last.err = "ok"
    /\ gen = last.gen + 2
    /\ SubSeq(issued, Len(issued) - 1, Len(issued)) = <<last.gen + 1, last.gen + 2>>
    /\ Opened(fs, last.b, last.gen + 1) = Current(last.fs, last.b)
    /\ Opened(fs, last.a, last.gen + 2) = Current(last.fs, last.a)
    /\ History(fs, last.b) # <<>> /\ History(fs, last.b)[1] = last.gen + 1
    /\ Opened(fs, last.b, 0) = Current(last.fs, last.a)

\* C25: Move(from, to) captures the destination before the source: when both
\* have a current content due for capture and the counter is n, to's content
\* becomes the entry to@(n+1) and from's content from@(n+2), both before the
\* rename; afterwards the newest generation of History(to) is n+1.
C25_DestinationCapturedFirst == MoveOfTwoDue => DestinationCapturedFirst

\* C25, for two paths that name different files whose parents are mirrored
\* under the history root.
C25_DestinationCapturedFirstOfMirroredFiles ==
    (MoveOfTwoDue
     /\ realPath(last.a, FALSE) # realPath(last.b, FALSE)
     /\ Dir(realPath(last.a, TRUE)) \in DOMAIN last.fs
     /\ Dir(realPath(last.b, TRUE)) \in DOMAIN last.fs)
    => DestinationCapturedFirst

\* A Move of a file onto itself, by two spellings of its path, has made one
\* entry only.
C25_MovedOntoItself ==
    /\ MoveOfTwoDue /\ last.err = "ok"
    /\ realPath(last.a, FALSE) = realPath(last.b, FALSE)
    /\ gen = last.gen + 1

\* A Move between two files due for capture has failed before its rename,
\* for want of the mirror of the destination's directory.
C25_MoveFailedInCapture ==
    /\ MoveOfTwoDue /\ last.err = "ENOENT"
    /\ Dir(realPath(last.b, TRUE)) \notin DOMAIN last.fs
    /\ Untouched


\* A Move between two different files, both due for capture, has captured
\* the destination and then the source.
C25_BothCaptured ==
    /\ MoveOfTwoDue /\ DestinationCapturedFirst
    /\ realPath(last.a, FALSE) # realPath(last.b, FALSE)


---------------------------------------------------------------------------
(* Paths as strings: realPath, checkPath and fixPath on their own, applied *)
(* to every short path over a small alphabet, for a store whose root is    *)
(* given as a relative path, as an absolute one, or as ".".  Here last is  *)
(* the path and the root with the function applied and what it returned.   *)

\* The longest path given.
MaxPath == 5

\* The characters of the paths: the dot, the separator, a letter, the "@".
PathChars == {Dot, Slash, "d", At}

GivenPaths == UNION {[1..k -> PathChars] : k \in 0..MaxPath}

\* The roots a store is opened on.
Roots == {<<"r">>, <<Slash, "s", Slash, "r">>, <<Dot>>}

\* filepath.Join: the elements that are not empty, joined and cleaned.
FilepathJoin(elems) ==
    IF SelectSeq(elems, LAMBDA e : e # <<>>) = <<>> THEN <<>>
    ELSE Clean(JoinSlash(SelectSeq(elems, LAMBDA e : e # <<>>)))

\* Store.realPath with its result a string: the root with the cleaned path
\* below it, taken from "/" so that no ".." is left in it.
RealPathOf_Unrooted(root, path, history) ==
    IF history THEN FilepathJoin(<<root, HistoryName, Clean(path)>>)
    ELSE FilepathJoin(<<root, Clean(path)>>)

RealPathOf(root, path, history) ==
    IF history THEN FilepathJoin(<<root, HistoryName, Clean(<<Slash>> \o path)>>)
    ELSE FilepathJoin(<<root, Clean(<<Slash>> \o path)>>)

InitPaths ==
    \E path \in GivenPaths : \E root \in Roots :
        /\ fs = EmptyDisk
        /\ gen = 0
        /\ issued = <<>>
        /\ last = [op |-> "path", a |-> path, root |-> root, history |-> FALSE,
                   err |-> "ok", out |-> <<>>]

\* realPath is applied to the path.
ResolvePath ==
    \E history \in BOOLEAN :
        /\ last.op = "path"
        /\ last' = [last EXCEPT !.op = "realPath", !.history = history,
                                !.out = RealPathOf(last.root, last.a, history)]
        /\ UNCHANGED <<fs, gen, issued>>

\* checkPath is applied to the path, and realPath to a path it accepts.
CheckGivenPath ==
    /\ last.op = "path"
    /\ last' = [last EXCEPT !.op = "checkPath",
                            !.err = IF checkPath(last.a) THEN "ErrIllegalPath" ELSE "ok",
                            !.out = IF checkPath(last.a) THEN <<>>
                                    ELSE RealPathOf(last.root, last.a, FALSE)]
    /\ UNCHANGED <<fs, gen, issued>>

\* fixPath is applied to the path, and checkPath to what it returns.
FixGivenPath ==
    /\ last.op = "path"
    /\ last' = [last EXCEPT !.op = "fixPath",
                            !.err = IF checkPath(fixPath(last.a)) THEN "ErrIllegalPath" ELSE "ok",
                            !.out = fixPath(last.a)]
    /\ UNCHANGED <<fs, gen, issued>>

NextPaths ==
    \/ ResolvePath
    \/ CheckGivenPath
    \/ FixGivenPath

SpecPaths == InitPaths /\ [][NextPaths]_vars

\* The elements of a cleaned path string; "." has none.
PlaceElements(p) == IF p = <<Dot>> THEN <<>> ELSE Elements(p)

\* The string p names the directory d or a place below it: both are taken
\* from "/" or neither is, the elements of d begin those of p, and none of
\* the elements that follow is "..".
Inside(p, d) ==
    /\ HasPrefix(p, <<Slash>>) <=> HasPrefix(d, <<Slash>>)
    /\ HasPrefix(PlaceElements(p), PlaceElements(Clean(d)))
    /\ \A k \in 1..Len(PlaceElements(p)) :
           k > Len(PlaceElements(Clean(d))) => PlaceElements(p)[k] # DotDot

HistoryRootOf(root) == FilepathJoin(<<root, HistoryName>>)

\* C26: path confinement.  For every path, with any ".." elements and
\* leading separators, realPath returns a place inside the store root when
\* history is false and inside <root>/.history when it is true; and for every
\* path that checkPath accepts the current place is strictly inside the root
\* and not inside <root>/.history.
C26_PathsConfined ==
    /\ (last.op = "realPath" /\ ~last.history) => Inside(last.out, last.root)
    /\ (last.op = "realPath" /\ last.history) => Inside(last.out, HistoryRootOf(last.root))
    /\ (last.op = "checkPath" /\ last.err = "ok")
       => /\ Inside(last.out, last.root)
          /\ last.out # Clean(last.root)
          /\ ~Inside(last.out, HistoryRootOf(last.root))

\* A path that begins with a separator and a ".." has been resolved to a
\* place below the history root.
C26_Witness ==
    /\ last.op = "realPath" /\ last.history
    /\ HasPrefix(last.a, <<Slash, Dot, Dot, Slash>>)
    /\ Inside(last.out, HistoryRootOf(last.root))
    /\ last.out # HistoryRootOf(last.root)

\* A path with a ".." in it has been accepted and resolved.
C26_WitnessAccepted ==
    /\ last.op = "checkPath" /\ last.err = "ok"
    /\ \E k \in 1..Len(Split(last.a, Slash)) : Split(last.a, Slash)[k] = DotDot
    /\ Inside(last.out, last.root)

\* The places of the model, the elements below the store root, are those of
\* the strings realPath returns.
C26_PlacesAreResolvedPaths ==
    last.op = "realPath"
    => PlaceElements(last.out)
         = PlaceElements(Clean(last.root)) \o realPath(last.a, last.history)


\* An element of the cleaned path begins with two dots, so that one is left
\* when fixPath has trimmed one.
DotsRemain(n) ==
    \E k \in 1..Len(Split(Clean(n), Slash)) :
        HasPrefix(TrimPrefixDot(Split(Clean(n), Slash)[k]), <<Dot>>)

\* Every element of the cleaned path is empty or a single dot.
NothingRemains(n) ==
    \A k \in 1..Len(Split(Clean(n), Slash)) : TrimPrefixDot(Split(Clean(n), Slash)[k]) = <<>>

\* C27: for every name or path n, fixPath(n) is accepted by checkPath; and
\* for every n that checkPath accepts, fixPath(n) is the cleaned form of n.
C27_FixedIsLegal ==
    last.op = "fixPath"
    => /\ last.err = "ok"
       /\ ~checkPath(last.a) => last.out = Clean(last.a)

\* What the code does: fixPath(n) is accepted when no element of n begins
\* with two dots and some element is more than a dot; and a path that
\* checkPath accepts is returned cleaned.
C27_FixedIsLegalUnlessDotsRemain ==
    last.op = "fixPath"
    => /\ (~DotsRemain(last.a) /\ ~NothingRemains(last.a)) => last.err = "ok"
       /\ ~checkPath(last.a) => last.out = Clean(last.a)

\* The name of a file that begins with two dots has been fixed to a name
\* that begins with one.
C27_FixedStillIllegal ==
    /\ last.op = "fixPath" /\ last.a = <<Dot, Dot, "d">>
    /\ last.out = <<Dot, "d">>
    /\ last.err = "ErrIllegalPath"

\* An illegal name has been fixed to a legal one, and a legal path has been
\* returned cleaned.
C27_FixedWitness ==
    /\ last.op = "fixPath" /\ last.err = "ok"
    /\ \/ checkPath(last.a) /\ Contains(last.a, At) /\ Contains(last.out, "_")
       \/ ~checkPath(last.a) /\ last.out # last.a


---------------------------------------------------------------------------
(* cleanDirectoryStructure on its own, applied to every small directory   *)
(* tree.  The tree is made entry by entry below an empty root and is then  *)
(* swept.  Here last is the function applied and the tree it was given.    *)

\* The most entries a tree has below its root.
MaxEntries == 5

\* The names of the entries.
EntryNames == {<<"d">>, <<"e">>}

InitTrees ==
    /\ fs = EmptyDisk
    /\ gen = 0
    /\ issued = <<>>
    /\ last = [op |-> "tree", fs |-> EmptyDisk]

\* The tree gets one more entry, a file or an empty directory, in one of its
\* directories.
AddEntry ==
    \E d \in DOMAIN fs : \E name \in EntryNames : \E node \in {DirNode, FileNode(Hello)} :
        /\ last.op = "tree"
        /\ Cardinality(DOMAIN fs) <= MaxEntries
        /\ fs[d].dir
        /\ Append(d, name) \notin DOMAIN fs
        /\ fs' = [loc \in DOMAIN fs \cup {Append(d, name)} |->
                     IF loc \in DOMAIN fs THEN fs[loc] ELSE node]
        /\ last' = [op |-> "tree", fs |-> fs']
        /\ UNCHANGED <<gen, issued>>

\* cleanDirectoryStructure is applied to the root of the tree.
SweepTree ==
    /\ last.op = "tree"
    /\ fs' = cleanDirectoryStructure(fs, Root)
    /\ last' = [op |-> "cleanDirectoryStructure", fs |-> fs]
    /\ UNCHANGED <<gen, issued>>

NextTrees ==
    \/ AddEntry
    \/ SweepTree

SpecTrees == InitTrees /\ [][NextTrees]_vars

\* A regular file lies somewhere beneath directory d of disk f.
HasFileBeneath(f, d) == \E loc \in DOMAIN f : IsUnder(loc, d) /\ ~f[loc].dir

\* C28: after cleanDirectoryStructure(root) returns, for any directory tree,
\* the root is still there, no regular file has been removed, every directory
\* other than the root with no regular file anywhere beneath it has been
\* removed, and every directory left other than the root has a regular file
\* beneath it.
C28_SweepLeavesTheFiles ==
    last.op = "cleanDirectoryStructure"
    => /\ Root \in DOMAIN fs /\ fs[Root].dir
       /\ \A loc \in DOMAIN last.fs :
              ~last.fs[loc].dir => loc \in DOMAIN fs /\ fs[loc] = last.fs[loc]
       /\ \A d \in DOMAIN last.fs :
              (last.fs[d].dir /\ d # Root /\ ~HasFileBeneath(last.fs, d)) => d \notin DOMAIN fs
       /\ \A d \in DOMAIN fs :
              (fs[d].dir /\ d # Root) => HasFileBeneath(fs, d)
       /\ DOMAIN fs \subseteq DOMAIN last.fs

\* A tree has been swept of a directory that held only an empty directory,
\* and has kept a directory with a file two levels below it.
C28_Witness ==
    /\ last.op = "cleanDirectoryStructure"
    /\ \E d \in DOMAIN last.fs \ DOMAIN fs :
           Len(d) = 2 /\ Front(d) \notin DOMAIN fs
    /\ \E loc \in DOMAIN fs : Len(loc) = 3 /\ ~fs[loc].dir


---------------------------------------------------------------------------
(* Two goroutines in one store that make their calls on the same path:     *)
(* the steps are those of the two goroutines above, and the first call is  *)
(* Write("dir/file") storing "World!" or Remove("dir/file"), the second    *)
(* Write("dir/file") storing "Hello!" (what the file holds) or             *)
(* Remove("dir/file").                                                     *)

SamePathCalls == {Begun("Write", DirFile, Hello), Begun("Remove", DirFile, <<>>)}

InitSamePath ==
    \E disk \in ConcurrentDisks : \E s \in New(disk) : \E c1 \in FirstCalls : \E c2 \in SamePathCalls :
        /\ s.err = "ok"
        /\ fs = s.fs
        /\ gen = s.gen
        /\ issued = <<>>
        /\ last = [start |-> [fs |-> s.fs, gen |-> s.gen], calls |-> <<c1, c2>>, mixed |-> FALSE]

SpecSamePath == InitSamePath /\ [][NextConcurrent]_vars

\* The entries of "dir/file" made since the calls began that hold what the
\* file held when they began.
EntriesOfPrior ==
    {e \in NewEntries(last.start.fs, fs, DirFile) : fs[e] = Current(last.start.fs, DirFile)}

\* Both calls have gone on to capture, each under a generation of its own.
BothDecided ==
    /\ last.calls[1].next # 0 /\ last.calls[2].next # 0
    /\ last.calls[1].next # last.calls[2].next

\* C29: the capture is not atomic.  Two callers that mutate the same path at
\* the same time can both read the same newest entry and both capture, so
\* that two entries of different generations hold one prior content; this
\* happens in, and only in, runs in which the steps of the calls are mixed
\* and both calls capture.
C29_TwoEntriesOnlyWhenMixed ==
    (BothDone /\ Cardinality(EntriesOfPrior) >= 2) => (last.mixed /\ BothDecided)

\* The run the claim names: both calls have read the same newest entry, 123,
\* both have captured, and two entries hold the prior content of the file.
C29_Witness ==
    /\ BothDone /\ last.mixed /\ BothDecided
    /\ last.calls[1].newest = 123 /\ last.calls[2].newest = 123
    /\ EntriesOfPrior = {EntryOf(last.calls[1]), EntryOf(last.calls[2])}
    /\ EntryOf(last.calls[1]) # EntryOf(last.calls[2])

\* A run in which an entry holds a content that is neither the prior one nor
\* one that a call has stored: the file was copied between its truncation
\* and its writing.
C29_TruncatedEntry ==
    /\ BothDone
    /\ \E e \in NewEntries(last.start.fs, fs, DirFile) : fs[e] = FileNode(<<>>)


---------------------------------------------------------------------------
(* A store opened on a history tree that holds an entry whose name yields  *)
(* the largest generation: the entry <file>@<MaxUint>, or a name whose     *)
(* number is out of range.  The calls are those of the single caller.      *)

\* "dir/file" with its entry of generation 1, beside an entry of "file"
\* whose name spells a number out of range.
OverDisk ==
    (Root :> DirNode)
    @@ (<<HistoryName>> :> DirNode)
    @@ (<<HistoryName, File \o <<At>> \o FormatUint(MaxUint + 1)>> :> FileNode(Hello))
    @@ (<<HistoryName, DirName>> :> DirNode)
    @@ (<<HistoryName, DirName, File \o <<At, "1">>>> :> FileNode(Hello))
    @@ (<<DirName>> :> DirNode)
    @@ (<<DirName, File>> :> FileNode(World))

\* "file" with its entry of the largest generation.
LastDisk ==
    (Root :> DirNode)
    @@ (<<HistoryName>> :> DirNode)
    @@ (<<HistoryName, File \o <<At>> \o FormatUint(MaxUint)>> :> FileNode(Hello))
    @@ (<<File>> :> FileNode(World))

InitWrap ==
    \E disk \in {OverDisk, LastDisk} : \E s \in New(disk) :
        /\ s.err = "ok"
        /\ fs = s.fs
        /\ gen = s.gen
        /\ issued = <<>>
        /\ last = [op |-> "New", a |-> <<>>, b |-> <<>>, data |-> <<>>, n |-> 0,
                   history |-> FALSE, recursive |-> FALSE,
                   err |-> s.err, out |-> None, fs |-> disk, gen |-> 0]

SpecWrap == InitWrap /\ [][Next]_vars

\* The counter is at or above the generation of every entry on the disk.
CounterCoversDisk == gen >= Max({0} \cup GenerationsOnDisk(fs))

\* C30: in every state reachable from New by public operations the counter
\* is at or above the generation of every historic entry on disk, so that no
\* capture takes the name of an entry that exists.
C30_CounterCoversDisk ==
    /\ CounterCoversDisk
    /\ last.op \in {"Write", "Copy", "Move", "Remove"}
       => ~CaptureMeetsEntry(last.fs, last.gen, CapturedFirst)

\* A capture has taken generation 0, after the largest, and has left the
\* counter below an entry on the disk.
C30_CounterWrapped ==
    /\ last.op \in {"Write", "Copy", "Move", "Remove"}
    /\ last.gen = MaxUint /\ gen = 0
    /\ historyPath(CapturedFirst, 0) \in DOMAIN fs
    /\ GenerationsOnDisk(fs) # {}

\* A capture has taken a generation whose entry was on the disk, and the
\* call has succeeded.
C30_NameTakenTwice ==
    /\ last.op \in {"Write", "Copy", "Move", "Remove"} /\ last.err = "ok"
    /\ CaptureMeetsEntry(last.fs, last.gen, CapturedFirst)

\* C30 for two goroutines in one store: the counter covers the disk.
C30_CounterCoversDiskOfGoroutines == CounterCoversDisk


---------------------------------------------------------------------------
(* Claims on the whole store.                                              *)

\* The generation that the name of an entry carries.
GenerationOf(e) == getGenerationFromFileName(Last(e))

\* No two historic entries of disk f carry the same generation.
UniqueGenerations(f) ==
    \A e1 \in EntriesOf(f) : \A e2 \in EntriesOf(f) :
        e1 # e2 => GenerationOf(e1) # GenerationOf(e2)

\* C31: generations are unique store-wide: in every state that public
\* operations reach, the interleavings of concurrent callers included, no
\* two historic entries of the history tree carry the same generation.
C31_GenerationsUnique == UniqueGenerations(fs)

\* Two goroutines, their steps mixed, have each made an entry, of different
\* paths and of different generations.
C31_Witness ==
    /\ BothDone /\ last.mixed
    /\ last.calls[1].a # last.calls[2].a
    /\ \A p \in Procs : last.calls[p].next # 0
                         /\ EntryOf(last.calls[p]) \in DOMAIN fs
                         /\ EntryOf(last.calls[p]) \notin DOMAIN last.start.fs
    /\ last.calls[1].next # last.calls[2].next


\* The last call was a mutation that returned an error.
FailedMutation ==
    /\ last.op \in {"Write", "Copy", "Move", "Remove"}
    /\ last.err # "ok"

\* C32: whenever Write, Copy, Move or Remove returns an error, the store is
\* as it was before the call: no historic entry has been created and the
\* generation counter has its previous value.
C32_FailedCallLeavesStore ==
    FailedMutation => /\ EntriesOf(fs) = EntriesOf(last.fs)
                      /\ gen = last.gen

\* A call refused for its first path leaves the disk and the counter as they
\* were.
C32_RefusedAtOnceLeavesStore ==
    (FailedMutation /\ checkPath(IF last.op \in {"Copy", "Move"} THEN last.b ELSE last.a))
        => Untouched

\* A Copy from a path with no file has failed after the capture of its
\* destination: an entry was made and the counter raised.
C32_CopyFailedAfterCapture ==
    /\ last.op = "Copy" /\ last.err = "ENOENT"
    /\ realPath(last.a, FALSE) \notin DOMAIN last.fs
    /\ EntriesOf(fs) # EntriesOf(last.fs)
    /\ gen # last.gen



\* The paths a mutation is aimed at: both paths of a Move, the destination
\* of a Copy, the path of a Write or Remove.
Targets ==
    IF last.op = "Move" THEN {last.a, last.b}
    ELSE IF last.op = "Copy" THEN {last.b}
    ELSE {last.a}

\* The places of the targets on disk f: their current files and their
\* historic entries.
TargetPlaces(f) ==
    {realPath(t, FALSE) : t \in Targets} \cup UNION {HistoricEntries(f, t) : t \in Targets}

\* The regular files of disk f, current and historic, that belong to no
\* target.
OtherFiles(f) ==
    {loc \in DOMAIN f : ~f[loc].dir} \ (TargetPlaces(last.fs) \cup TargetPlaces(fs))

\* C34: mutations are confined to their target: Write(p), Remove(p) and
\* Copy(a, p) change neither the current content nor the set or content of
\* the historic entries of a logical path other than p, and Move(a, b)
\* changes them for a and b only.
C34_MutationsConfined ==
    last.op \in {"Write", "Copy", "Move", "Remove"}
    => /\ OtherFiles(fs) = OtherFiles(last.fs)
       /\ \A loc \in OtherFiles(fs) : fs[loc] = last.fs[loc]

\* The source of the Move is a directory.
MoveOfDirectory ==
    /\ last.op = "Move"
    /\ realPath(last.a, FALSE) \in DOMAIN last.fs
    /\ last.fs[realPath(last.a, FALSE)].dir

\* What holds of the mutations: but for the Move of a directory, the files
\* and entries of the other paths are left as they were.
C34_ConfinedUnlessDirectoryMoved ==
    (last.op \in {"Write", "Copy", "Move", "Remove"} /\ ~MoveOfDirectory)
    => /\ OtherFiles(fs) = OtherFiles(last.fs)
       /\ \A loc \in OtherFiles(fs) : fs[loc] = last.fs[loc]

\* A Move of a directory has succeeded: a file below it is gone from its
\* path, without a capture, and lies below the destination.
C34_FileMovedWithDirectory ==
    /\ MoveOfDirectory /\ last.err = "ok"
    /\ \E loc \in OtherFiles(last.fs) :
           /\ IsUnder(loc, realPath(last.a, FALSE))
           /\ loc \notin DOMAIN fs
           /\ EntriesOf(fs) \ EntriesOf(last.fs) \subseteq TargetPlaces(fs)

\* A mutation of a file has changed its target while another path has a
\* current file and a historic entry.
C34_OthersKept ==
    /\ last.op \in {"Write", "Copy", "Move", "Remove"} /\ ~MoveOfDirectory
    /\ last.err = "ok"
    /\ fs # last.fs
    /\ \E loc \in OtherFiles(fs) : IsUnder(loc, <<HistoryName>>)
    /\ \E loc \in OtherFiles(fs) : ~IsUnder(loc, <<HistoryName>>)

\* The last call was one of the operations that only read.
ReadOnlyCall ==
    \/ last.op \in {"Open", "List", "FileHistory", "Stat"}
    \/ last.op = "GetGeneration" /\ ~last.history

\* C35: the read-only operations Open, List, FileHistory, Stat and
\* GetGeneration(false) leave the whole store unchanged for every argument:
\* the current tree, the history tree and the generation counter are the
\* same before and after the call, whether it succeeds or fails.
C35_ReadOnlyLeaveStore == ReadOnlyCall => Untouched

\* An Open of a path with no file has failed on a store that holds a
\* current file and a historic entry and has issued a generation.
C35_Witness ==
    /\ last.op = "Open" /\ last.err = "ENOENT"
    /\ checkPath(last.a) = FALSE
    /\ Dir(realPath(last.a, FALSE)) \in DOMAIN last.fs
    /\ EntriesOf(last.fs) # {}
    /\ \E loc \in DOMAIN last.fs : ~last.fs[loc].dir /\ ~IsUnder(loc, <<HistoryName>>)
    /\ issued # <<>>
    /\ Untouched

\* A List of the history tree has returned names.
C35_ListedWitness ==
    /\ last.op = "List" /\ last.err = "ok" /\ last.out # <<>> /\ last.history
    /\ Untouched

\* A Stat has succeeded on a store that holds entries.
C35_StatWitness ==
    /\ last.op = "Stat" /\ last.err = "ok" /\ EntriesOf(last.fs) # {}
    /\ Untouched

\* A FileHistory has returned generations.
C35_HistoryWitness ==
    /\ last.op = "FileHistory" /\ last.err = "ok" /\ last.out # <<>>
    /\ Untouched

\* GetGeneration(false) has returned the counter of a store that has issued
\* a generation.
C35_GenerationWitness ==
    /\ last.op = "GetGeneration" /\ ~last.history /\ last.out = gen /\ issued # <<>>
    /\ Untouched

---------------------------------------------------------------------------
(* New on directories that were not made by a store: every small tree      *)
(* whose entries have legal and illegal names is made entry by entry and   *)
(* is then opened.  Here last is the function applied and the tree it was  *)
(* given.                                                                  *)

\* The names of the entries: a legal one, one whose fixed form is that legal
\* one, and one whose fixed form begins with a dot.
RepairNames == {<<"a">>, <<Dot, "a">>, <<Dot, Dot, "a">>}

InitRepair ==
    /\ fs = EmptyDisk
    /\ gen = 0
    /\ issued = <<>>
    /\ last = [op |-> "tree", fs |-> EmptyDisk]

\* The tree gets one more entry in one of its directories: a directory, or a
\* file that holds its own path.
AddNamedEntry ==
    \E d \in DOMAIN fs : \E name \in RepairNames : \E isDir \in BOOLEAN :
        /\ last.op = "tree"
        /\ Cardinality(DOMAIN fs) <= MaxEntries
        /\ fs[d].dir
        /\ Append(d, name) \notin DOMAIN fs
        /\ fs' = [loc \in DOMAIN fs \cup {Append(d, name)} |->
                     IF loc \in DOMAIN fs THEN fs[loc]
                     ELSE IF isDir THEN DirNode ELSE FileNode(JoinSlash(loc))]
        /\ last' = [op |-> "tree", fs |-> fs']
        /\ UNCHANGED <<gen, issued>>

\* New is called on the tree.
OpenTree ==
    \E s \in New(fs) :
        /\ last.op = "tree"
        /\ fs' = s.fs
        /\ gen' = s.gen
        /\ last' = [op |-> "New", fs |-> fs]
        /\ UNCHANGED issued

NextRepair ==
    \/ AddNamedEntry
    \/ OpenTree

SpecRepair == InitRepair /\ [][NextRepair]_vars

\* The regular files of the current tree of disk f, and their contents.
CurrentFiles(f) == {loc \in DOMAIN f : ~IsUnder(loc, <<HistoryName>>) /\ ~f[loc].dir}

ContentsOf(f) == {f[loc].data : loc \in CurrentFiles(f)}

\* Every name of the current tree of disk f is legal.
NamesLegal(f) ==
    \A loc \in DOMAIN f :
        (loc # Root /\ ~IsUnder(loc, <<HistoryName>>) /\ loc # <<HistoryName>>)
            => ~checkPath(Last(loc))

\* C33: the repair sweep of New never loses a file: for every tree that was
\* there before, one where the fixed form of an illegal name is the name of
\* another entry of the same directory included, the number of regular
\* files and their contents are the same after the sweep as before, and
\* every name that remains is legal.
C33_SweepKeepsTheFiles ==
    last.op = "New"
    => /\ Cardinality(CurrentFiles(fs)) = Cardinality(CurrentFiles(last.fs))
       /\ ContentsOf(fs) = ContentsOf(last.fs)
       /\ NamesLegal(fs)

\* The fixed form of each illegal name of disk f is legal and is the name of
\* no other entry of its directory, before the sweep or by another fix.
FixesApart(f) ==
    \A loc \in DOMAIN f \ {Root} :
        checkPath(Last(loc))
        => /\ ~checkPath(fixPath(Last(loc)))
           /\ \A other \in Children(f, Dir(loc)) \ {loc} :
                  fixPath(Last(other)) # fixPath(Last(loc))

\* What holds of the sweep: on a tree whose fixes are apart, the files and
\* their contents are kept and every name that remains is legal.
C33_SweepKeepsTheFilesWhenFixesApart ==
    (last.op = "New" /\ FixesApart(last.fs))
    => /\ Cardinality(CurrentFiles(fs)) = Cardinality(CurrentFiles(last.fs))
       /\ ContentsOf(fs) = ContentsOf(last.fs)
       /\ NamesLegal(fs)

\* The sweep has renamed a file over its sibling, whose content is lost.
C33_FileLost ==
    /\ last.op = "New"
    /\ <<<<Dot, "a">>>> \in CurrentFiles(last.fs)
    /\ <<<<"a">>>> \in CurrentFiles(last.fs)
    /\ Cardinality(CurrentFiles(fs)) < Cardinality(CurrentFiles(last.fs))
    /\ last.fs[<<<<"a">>>>].data \notin ContentsOf(fs)

\* The sweep has left an illegal name.
C33_IllegalNameLeft ==
    /\ last.op = "New"
    /\ ~NamesLegal(fs)

\* The sweep has renamed a file and its directory in a tree whose fixes are
\* apart.
C33_FilesRenamed ==
    /\ last.op = "New" /\ FixesApart(last.fs)
    /\ <<<<Dot, "a">>, <<Dot, "a">>>> \in CurrentFiles(last.fs)
    /\ <<<<"a">>, <<"a">>>> \in CurrentFiles(fs)
    /\ fs[<<<<"a">>, <<"a">>>>] = last.fs[<<<<Dot, "a">>, <<Dot, "a">>>>]

=============================================================================
